---------------------------- MODULE Spec2Model ----------------------------
(***************************************************************************)
(* A model of the spasm assembler front end (src/src/token.rs and          *)
(* src/src/parse.rs): the lexer tokenize_lines, the numeric literal        *)
(* conversions, and the parser build_program with its section, argument    *)
(* and instruction-overload parsers; and of the entry point assemble_file  *)
(* with the lexer it calls (src/src/lib.rs).                               *)
(*                                                                         *)
(* A character is a one-character string, a Rust String a sequence of      *)
(* characters.  A call of report_error never returns (its callers use it   *)
(* in diverging positions), so every operation yields either a value or    *)
(* the error it reported, and the first error ends the run.  An error is   *)
(* the message and the span handed to report_error; a message is written   *)
(* without the names the source formats into it and with ' for each        *)
(* backquote of the source.                                                *)
(***************************************************************************)
EXTENDS Integers, Sequences, FiniteSets, TLC

VARIABLES
    \* tokenize_lines
    lines, line_number, chars, col_number, found_instruction, found_directive,
    tokens, lex_pc, lex_error,
    \* a numeric token and its two conversions
    num_token, operand_result, word_result, num_pc,
    \* Instruction::parse
    instruction_mnemonic, instruction_arguments, instruction, instr_pc,
    \* the argument tokens of an instruction line
    line_arguments, split_result, line_result, arg_pc,
    \* build_program
    source_tokens, queue, ast, labels, parse_pc, parse_error,
    \* assemble_file
    content, asm_pc, printed,
    \* a second run of the lexer and the parser on the same lines
    run_number, first_run

lexVars == <<lines, line_number, chars, col_number, found_instruction,
             found_directive, tokens, lex_pc, lex_error>>

numVars == <<num_token, operand_result, word_result, num_pc>>

instrVars == <<instruction_mnemonic, instruction_arguments, instruction, instr_pc>>

argVars == <<line_arguments, split_result, line_result, arg_pc>>

parseVars == <<source_tokens, queue, ast, labels, parse_pc, parse_error>>

asmVars == <<content, asm_pc, printed>>

runVars == <<run_number, first_run>>

vars == <<lexVars, numVars, instrVars, argVars, parseVars, asmVars, runVars>>

-----------------------------------------------------------------------------
(* Bounds of the checked inputs. *)

MaxDigits == 6

MaxRun == 16

MaxAffix == 1

MaxArgs == 3

MaxLineLen == 4

MaxTextLen == 5

MaxArgTokens == 4

MaxProgLines == 4

MaxPipelineLines == 3

MaxOperandDigits == 3

MaxArgumentLen == 4

MaxRunTokens == 4

\* The most lines in the run of a subroutine label.
MaxSubroutineLines == 3

\* The longest register name.
MaxRegisterNameLen == 3

\* The most characters after the '%' of a line.
MaxPercentLen == 4

\* The most characters of a line whose token payloads are examined.
MaxPayloadLineLen == 4

\* The longest run of blank lines at the head of a source file.
MaxBlankLines == 998

-----------------------------------------------------------------------------
(* Strings *)

Str(A, n) == UNION {[1..k -> A] : k \in 0..n}

NonEmptyStr(A, n) == UNION {[1..k -> A] : k \in 1..n}

Repeat(c, k) == [i \in 1..k |-> c]

Last(s) == s[Len(s)]

Front(s) == SubSeq(s, 1, Len(s) - 1)

-----------------------------------------------------------------------------
(* Results: a value, the error handed to report_error, or a panic. *)

Ok(v) == [res |-> "ok", value |-> v]

Err(msg, line, cs, ce) ==
    [res |-> "error", message |-> msg, line_number |-> line,
     col_start |-> cs, col_end |-> ce]

Panic(msg) == [res |-> "panic", message |-> msg]

ErrAt(msg, tok) == Err(msg, tok.line_number, tok.column_start, tok.column_end)

-----------------------------------------------------------------------------
(* Tokens *)

NoPayload == <<>>

Token(line, cs, ce, raw, kind, payload) ==
    [line_number |-> line, column_start |-> cs, column_end |-> ce,
     value |-> raw, token_type |-> kind, payload |-> payload]

NumberKinds == {"Binary", "Decimal", "Hex"}

-----------------------------------------------------------------------------
(* Input construction: source text, token layouts and number tokens.       *)

\* Source text: split into lines at the line breaks, as str::lines does (a final
\* line break ends the last line and starts no empty one).
RECURSIVE SplitLines(_, _)
SplitLines(text, current) ==
    IF text = <<>> THEN (IF current = <<>> THEN <<>> ELSE <<current>>)
    ELSE IF Head(text) = "\n" THEN <<current>> \o SplitLines(Tail(text), <<>>)
    ELSE SplitLines(Tail(text), Append(current, Head(text)))

\* The tokens of one source line laid out from column 'col', one space apart;
\* a shape is the kind, payload and raw text of a token.
Shape(kind, payload, raw) == [kind |-> kind, payload |-> payload, raw |-> raw]

RECURSIVE LayOut(_, _, _)
LayOut(shapes, line, col) ==
    IF shapes = <<>> THEN <<>>
    ELSE LET sh == Head(shapes)
         IN <<Token(line, col, col + Len(sh.raw), sh.raw, sh.kind, sh.payload)>>
            \o LayOut(Tail(shapes), line, col + Len(sh.raw) + 1)

\* The tokens of a sequence of source lines, line i of the sequence on line i - 1.
RECURSIVE LayOutLines(_, _)
LayOutLines(shapeLines, line) ==
    IF shapeLines = <<>> THEN <<>>
    ELSE LayOut(Head(shapeLines), line, 0) \o LayOutLines(Tail(shapeLines), line + 1)

\* Source text from its lines: each line is followed by a line break.
RECURSIVE JoinLines(_)
JoinLines(ls) ==
    IF ls = <<>> THEN <<>> ELSE Head(ls) \o <<"\n">> \o JoinLines(Tail(ls))

\* The source line '<mnemonic> %<register>, #$<hex digits>'.
OperandLine(mnemonic, register, digits) ==
    mnemonic \o <<" ", "%">> \o register \o <<",", " ", "#", "$">> \o digits

DirectiveShape(name) == Shape("Directive", name, <<".">> \o name)

LabelShape(name) == Shape("Label", name, name \o <<":">>)

InstructionShape(name) == Shape("Instruction", name, name)

DecimalShape(digits) == Shape("Decimal", digits, digits)

RegisterShape(name) == Shape("Register", name, <<"%">> \o name)

CommaShape == Shape("Comma", NoPayload, <<",">>)

ImmediateShape == Shape("Immediate", NoPayload, <<"#">>)

IdentifierShape(name) == Shape("Identifier", name, name)

HexShape(digits) == Shape("Hex", digits, <<"$">> \o digits)

StructuralShape(c, kind) == Shape(kind, NoPayload, <<c>>)

AsciiStringShape(s) == Shape("AsciiString", s, <<"\"">> \o s \o <<"\"">>)

\* Number tokens: every digit string of at most MaxDigits decimal or hex digits
\* over digits that reach both sides of 65535, and the binary strings made of an
\* affix, a run of one digit and an affix (sixteen ones are 65535).
DecimalDigits == {"0", "3", "5", "6"}

HexDigits == {"0", "1", "f", "F"}

BinaryDigits == {"0", "1"}

BinaryStrings ==
    {a \o Repeat(d, k) \o b :
        a \in Str(BinaryDigits, MaxAffix), b \in Str(BinaryDigits, MaxAffix),
        d \in BinaryDigits, k \in 1..MaxRun}

NumberToken(kind, digits) ==
    CASE kind = "Decimal" -> Token(0, 6, 6 + Len(digits), digits, kind, digits)
      [] kind = "Binary" ->
            Token(0, 6, 7 + Len(digits), <<"%">> \o digits, kind, digits)
      [] kind = "Hex" ->
            Token(0, 6, 7 + Len(digits), <<"$">> \o digits, kind, digits)

DigitStrings(kind) ==
    CASE kind = "Decimal" -> NonEmptyStr(DecimalDigits, MaxDigits)
      [] kind = "Hex" -> NonEmptyStr(HexDigits, MaxDigits)
      [] kind = "Binary" -> BinaryStrings

-----------------------------------------------------------------------------
(* u16::from_str_radix, as called by Token::parse_u16 and by the .word arm *)
(* of DataSection::parse.                                                  *)

U16Max == 65535

DecDigitChars == <<"0", "1", "2", "3", "4", "5", "6", "7", "8", "9">>

HexLowerChars == <<"a", "b", "c", "d", "e", "f">>

HexUpperChars == <<"A", "B", "C", "D", "E", "F">>

\* char::to_digit: the digit's value, or -1 when c is no digit of the radix.
ToDigit(c, radix) ==
    LET dec == {i \in 1..10 : DecDigitChars[i] = c}
        low == {i \in 1..6 : HexLowerChars[i] = c}
        upp == {i \in 1..6 : HexUpperChars[i] = c}
        v == IF dec /= {} THEN (CHOOSE i \in dec : TRUE) - 1
             ELSE IF low /= {} THEN (CHOOSE i \in low : TRUE) + 9
             ELSE IF upp /= {} THEN (CHOOSE i \in upp : TRUE) + 9
             ELSE -1
    IN IF v >= 0 /\ v < radix THEN v ELSE -1

RECURSIVE FromStrRadixLoop(_, _, _, _)
RECURSIVE FromStrRadixDigit(_, _, _, _, _)
FromStrRadixLoop(digits, i, radix, acc) ==
    IF i > Len(digits) THEN [kind |-> "Ok", v |-> acc]
    ELSE FromStrRadixDigit(digits, i, radix, acc, ToDigit(digits[i], radix))

\* One digit of the loop: x is its value; checked_mul, then checked_add.
FromStrRadixDigit(digits, i, radix, acc, x) ==
    IF x < 0 THEN [kind |-> "InvalidDigit", v |-> 0]
    ELSE IF acc * radix > U16Max THEN [kind |-> "PosOverflow", v |-> 0]
    ELSE IF acc * radix + x > U16Max THEN [kind |-> "PosOverflow", v |-> 0]
    ELSE FromStrRadixLoop(digits, i + 1, radix, acc * radix + x)

FromStrRadixWrapping(src, radix) ==
    LET F[i \in 0..Len(src)] ==
            IF i = 0 THEN 0
            ELSE (F[i - 1] * radix + ToDigit(src[i], radix)) % (U16Max + 1)
    IN [kind |-> "Ok", v |-> F[Len(src)]]

FromStrRadix(src, radix) ==
    IF src = <<>> THEN [kind |-> "Empty", v |-> 0]
    ELSE IF src[1] = "+"
         THEN (IF Len(src) = 1 THEN [kind |-> "InvalidDigit", v |-> 0]
               ELSE FromStrRadixLoop(Tail(src), 1, radix, 0))
         ELSE FromStrRadixLoop(src, 1, radix, 0)

Radix(kind) ==
    CASE kind = "Binary" -> 2
      [] kind = "Decimal" -> 10
      [] kind = "Hex" -> 16

OverflowMessage(kind) ==
    CASE kind = "Binary" ->
            "Binary literal is larger than expected 16-bit word! (Max is %1111111111111111)"
      [] kind = "Decimal" ->
            "Decimal literal is larger than expected 16-bit word! (Max is 65535)"
      [] kind = "Hex" ->
            "Hexadecimal literal is larger than expected 16-bit word! (Max is $FFFF)"

\* The match on the result r of u16::from_str_radix for the token tok.
MatchFromStrRadix(r, tok) ==
    CASE r.kind = "Ok" -> Ok(r.v)
      [] r.kind = "PosOverflow" -> ErrAt(OverflowMessage(tok.token_type), tok)
      [] OTHER -> Panic("Unexpected IntErrorKind")

\* Token::parse_u16
parse_u16(tok) ==
    IF tok.token_type \in NumberKinds
    THEN MatchFromStrRadix(FromStrRadix(tok.payload, Radix(tok.token_type)), tok)
    ELSE Panic("Cannot parse u16 from non number type!")

\* The match on the result r of u16::from_str_radix in the "word" arm.
MatchWordFromStrRadix(r, constant_token) ==
    CASE r.kind = "Ok" -> Ok(r.v)
      [] r.kind = "PosOverflow" ->
             ErrAt(OverflowMessage(constant_token.token_type), constant_token)
      [] OTHER -> Panic("Unexpected IntErrorKind")

\* The number literal arms of the "word" directive in DataSection::parse.
word_value(constant_token) ==
    MatchWordFromStrRadix(
        FromStrRadix(constant_token.payload, Radix(constant_token.token_type)),
        constant_token)

-----------------------------------------------------------------------------
(* Character classes of the lexer. *)

LowerChars ==
    <<"a", "b", "c", "d", "e", "f", "g", "h", "i", "j", "k", "l", "m",
      "n", "o", "p", "q", "r", "s", "t", "u", "v", "w", "x", "y", "z">>

UpperChars ==
    <<"A", "B", "C", "D", "E", "F", "G", "H", "I", "J", "K", "L", "M",
      "N", "O", "P", "Q", "R", "S", "T", "U", "V", "W", "X", "Y", "Z">>

Range(s) == {s[i] : i \in DOMAIN s}

AsciiLetters == Range(LowerChars) \cup Range(UpperChars)

AsciiDigits == Range(DecDigitChars)

\* Characters outside ASCII that Rust's char::is_alphabetic / char::is_numeric
\* accept, named by code point: U+00E9 (e acute), U+00B2 (superscript two).
UnicodeLetters == {"U+00E9"}

UnicodeNumerics == {"U+00B2"}

\* first_char.is_alphabetic() || first_char == '_'
IsIdentifierStart(c) == c \in AsciiLetters \cup UnicodeLetters \/ c = "_"

\* first_char.is_numeric()
IsNumericChar(c) == c \in AsciiDigits \cup UnicodeNumerics

\* The anchored regular expressions of trait Alphabetic.
is_alphanumeric(s) == \A i \in DOMAIN s : s[i] \in AsciiLetters \cup AsciiDigits \cup {"_"}

is_numeric(s) == \A i \in DOMAIN s : s[i] \in AsciiDigits

is_binary(s) == \A i \in DOMAIN s : s[i] \in {"0", "1"}

is_hex(s) ==
    \A i \in DOMAIN s :
        s[i] \in AsciiDigits \cup Range(HexLowerChars) \cup Range(HexUpperChars)

-----------------------------------------------------------------------------
(* Token readers. *)

None == [some |-> FALSE, v |-> <<>>]

Some(s) == [some |-> TRUE, v |-> s]

\* The delimiter lists passed to read_to_chars.
NameDelimiters == {" ", "]", ")", "[", "(", ","}

ValueDelimiters == {" ", ",", ";", "(", ")", "[", "]"}

\* Number of leading characters of cs that are not in the set stop.
RECURSIVE RunLength(_, _)
RunLength(stop, cs) ==
    IF cs = <<>> \/ Head(cs) \in stop THEN 0 ELSE 1 + RunLength(stop, Tail(cs))

Drop(cs, n) == SubSeq(cs, n + 1, Len(cs))

\* read_to_chars: the text up to the next of 'characters' (not consumed), None when
\* that text is empty; col and the character queue advance past what was read.
read_to_chars(characters, col, cs) ==
    LET n == RunLength(characters, cs)
    IN [value |-> IF n = 0 THEN None ELSE Some(SubSeq(cs, 1, n)),
        col_number |-> col + n,
        chars |-> Drop(cs, n)]

\* read_to_char_inclusive: the text up to and including the next 'character'; the
\* closing character is popped without advancing col.  When the queue runs out
\* before 'character' is met, everything read is returned.
read_to_char_inclusive(character, col, cs) ==
    LET n == RunLength({character}, cs)
    IN IF cs = <<>> THEN [value |-> None, col_number |-> col, chars |-> cs]
       ELSE IF n < Len(cs)
            THEN [value |-> Some(SubSeq(cs, 1, n + 1)),
                  col_number |-> col + n,
                  chars |-> Drop(cs, n + 1)]
            ELSE [value |-> Some(cs), col_number |-> col + n, chars |-> <<>>]

-----------------------------------------------------------------------------
(* One iteration of the token loop of tokenize_lines.  Each arm yields the *)
(* lexer state after the iteration: the rest of the line, the column, the  *)
(* two flags, the token it pushed (emit, empty when none), whether the     *)
(* rest of the line is abandoned, and the error it reported, if any.       *)

LexState(cs, col, fi, fd, emit, brk, err) ==
    [chars |-> cs, col_number |-> col, found_instruction |-> fi,
     found_directive |-> fd, emit |-> emit, brk |-> brk, error |-> err]

NoError == [res |-> "none"]

LexError(msg, line, start, r, fi, fd) ==
    LexState(r.chars, r.col_number, fi, fd, <<>>, FALSE,
             Err(msg, line, start, r.col_number))

\* ('.', _, _): a directive
DirectiveArm(line, start, first_char, col, cs, fi, fd) ==
    LET r == read_to_chars(NameDelimiters, col, cs)
        value == r.value.v
    IN IF ~r.value.some
       THEN LexError("Unexpected end of directive token", line, start, r, fi, fd)
       ELSE IF ~is_alphanumeric(value)
       THEN LexError("Directive names must be alphanumeric!", line, start, r, fi, fd)
       ELSE LexState(r.chars, r.col_number, fi, TRUE,
                     <<Token(line, start, r.col_number, <<first_char>> \o value,
                             "Directive", value)>>,
                     FALSE, NoError)

\* '!found_instruction && !found_directive': the line has shown neither an
\* instruction nor a directive so far.
InstructionPosition_InstructionOnly(fi, fd) == ~fi

InstructionPosition(fi, fd) == ~fi /\ ~fd

\* The arm with a label counted as the instruction of its line.
IdentifierArm_LabelIsInstruction(line, start, first_char, col, cs, fi, fd) ==
    LET r == read_to_chars(NameDelimiters, col, cs)
        value == IF r.value.some THEN r.value.v ELSE <<>>
        full_value == <<first_char>> \o value
    IN IF Last(full_value) = ":"
       THEN (IF ~is_alphanumeric(Front(full_value))
             THEN LexError("Label name must be alphanumeric!", line, start, r, fi, fd)
             ELSE LexState(r.chars, r.col_number, TRUE, fd,
                           <<Token(line, start, r.col_number, full_value,
                                   "Label", Front(full_value))>>,
                           FALSE, NoError))
       ELSE IF InstructionPosition(fi, fd)
       THEN (IF ~is_alphanumeric(full_value)
             THEN LexError("Instruction name must be alphanumeric!", line, start, r,
                           TRUE, fd)
             ELSE LexState(r.chars, r.col_number, TRUE, fd,
                           <<Token(line, start, r.col_number, full_value,
                                   "Instruction", full_value)>>,
                           FALSE, NoError))
       ELSE (IF ~is_alphanumeric(full_value)
             THEN LexError("Identifier name must be alphanumeric!", line, start, r, fi, fd)
             ELSE LexState(r.chars, r.col_number, fi, fd,
                           <<Token(line, start, r.col_number, full_value,
                                   "Identifier", full_value)>>,
                           FALSE, NoError))

\* (_, true, _): a label, an instruction or an identifier
IdentifierArm(line, start, first_char, col, cs, fi, fd) ==
    LET r == read_to_chars(NameDelimiters, col, cs)
        value == IF r.value.some THEN r.value.v ELSE <<>>
        full_value == <<first_char>> \o value
    IN IF Last(full_value) = ":"
       THEN (IF ~is_alphanumeric(Front(full_value))
             THEN LexError("Label name must be alphanumeric!", line, start, r, fi, fd)
             ELSE LexState(r.chars, r.col_number, fi, fd,
                           <<Token(line, start, r.col_number, full_value,
                                   "Label", Front(full_value))>>,
                           FALSE, NoError))
       ELSE IF InstructionPosition(fi, fd)
       THEN (IF ~is_alphanumeric(full_value)
             THEN LexError("Instruction name must be alphanumeric!", line, start, r,
                           TRUE, fd)
             ELSE LexState(r.chars, r.col_number, TRUE, fd,
                           <<Token(line, start, r.col_number, full_value,
                                   "Instruction", full_value)>>,
                           FALSE, NoError))
       ELSE (IF ~is_alphanumeric(full_value)
             THEN LexError("Identifier name must be alphanumeric!", line, start, r, fi, fd)
             ELSE LexState(r.chars, r.col_number, fi, fd,
                           <<Token(line, start, r.col_number, full_value,
                                   "Identifier", full_value)>>,
                           FALSE, NoError))

\* ('"', _, _): a string literal
StringArm(line, start, first_char, col, cs, fi, fd) ==
    LET r == read_to_char_inclusive("\"", col, cs)
        full_value == <<first_char>> \o r.value.v
    IN IF ~r.value.some
       THEN LexError("Expected closing '\"' for string literal", line, start, r, fi, fd)
       ELSE LexState(r.chars, r.col_number, fi, fd,
                     <<Token(line, start, r.col_number, full_value, "AsciiString",
                             SubSeq(full_value, 2, Len(full_value) - 1))>>,
                     FALSE, NoError)

\* The arm testing for a register name first: digits are a name as well.
PercentArm_NameFirst(line, start, first_char, col, cs, fi, fd) ==
    LET r == read_to_chars(ValueDelimiters, col, cs)
        value == r.value.v
        full_value == <<first_char>> \o value
    IN IF ~r.value.some
       THEN LexError("Unexpected end of token", line, start, r, fi, fd)
       ELSE IF ~is_alphanumeric(value)
       THEN LexError("Register names must be alphanumeric!", line, start, r, fi, fd)
       ELSE LexState(r.chars, r.col_number, fi, fd,
                     <<Token(line, start, r.col_number, full_value, "Register", value)>>,
                     FALSE, NoError)

\* ('%', _, _): a binary literal or a register name
PercentArm(line, start, first_char, col, cs, fi, fd) ==
    LET r == read_to_chars(ValueDelimiters, col, cs)
        value == r.value.v
        full_value == <<first_char>> \o value
    IN IF ~r.value.some
       THEN LexError("Unexpected end of token", line, start, r, fi, fd)
       ELSE IF is_numeric(value)
       THEN (IF ~is_binary(value)
             THEN LexError("'%' Can only be used for binary literals!", line, start, r,
                           fi, fd)
             ELSE LexState(r.chars, r.col_number, fi, fd,
                           <<Token(line, start, r.col_number, full_value,
                                   "Binary", value)>>,
                           FALSE, NoError))
       ELSE IF ~is_alphanumeric(value)
       THEN LexError("Register names must be alphanumeric!", line, start, r, fi, fd)
       ELSE LexState(r.chars, r.col_number, fi, fd,
                     <<Token(line, start, r.col_number, full_value, "Register", value)>>,
                     FALSE, NoError)

\* The hex arm keeping the '$' in the payload.
HexArm_PayloadWithSigil(line, start, first_char, col, cs, fi, fd) ==
    LET r == read_to_chars(ValueDelimiters, col, cs)
        value == r.value.v
        full_value == <<first_char>> \o value
    IN IF ~r.value.some
       THEN LexError("Unexpected end of hex literal token", line, start, r, fi, fd)
       ELSE IF ~is_alphanumeric(value)
       THEN LexError("Unexpected non-alphanumeric characters in hex literal!",
                     line, start, r, fi, fd)
       ELSE IF ~is_hex(value)
       THEN LexError("'$' Can only be used for hex literals!", line, start, r, fi, fd)
       ELSE LexState(r.chars, r.col_number, fi, fd,
                     <<Token(line, start, r.col_number, full_value, "Hex", full_value)>>,
                     FALSE, NoError)

\* ('$', _, _): a hex literal
HexArm(line, start, first_char, col, cs, fi, fd) ==
    LET r == read_to_chars(ValueDelimiters, col, cs)
        value == r.value.v
        full_value == <<first_char>> \o value
    IN IF ~r.value.some
       THEN LexError("Unexpected end of hex literal token", line, start, r, fi, fd)
       ELSE IF ~is_alphanumeric(value)
       THEN LexError("Unexpected non-alphanumeric characters in hex literal!",
                     line, start, r, fi, fd)
       ELSE IF ~is_hex(value)
       THEN LexError("'$' Can only be used for hex literals!", line, start, r, fi, fd)
       ELSE LexState(r.chars, r.col_number, fi, fd,
                     <<Token(line, start, r.col_number, full_value, "Hex", value)>>,
                     FALSE, NoError)

\* (_, _, true): a decimal literal
DecimalArm(line, start, first_char, col, cs, fi, fd) ==
    LET r == read_to_chars(ValueDelimiters, col, cs)
        value == IF r.value.some THEN r.value.v ELSE <<>>
        full_value == <<first_char>> \o value
    IN IF ~is_numeric(value)
       THEN LexError("Unexpected non-numeric characters in decimal literal!",
                     line, start, r, fi, fd)
       ELSE LexState(r.chars, r.col_number, fi, fd,
                     <<Token(line, start, r.col_number, full_value,
                             "Decimal", full_value)>>,
                     FALSE, NoError)

\* The single-character tokens.
StructuralKind(c) ==
    CASE c = "," -> "Comma"
      [] c = "#" -> "Immediate"
      [] c = "[" -> "OpenBracket"
      [] c = "]" -> "CloseBracket"
      [] c = "(" -> "OpenParenthesis"
      [] c = ")" -> "CloseParenthesis"

StructuralArm(line, start, first_char, col, cs, fi, fd) ==
    LexState(cs, col, fi, fd,
             <<Token(line, start, col, <<first_char>>, StructuralKind(first_char),
                     NoPayload)>>,
             FALSE, NoError)

\* The match on first_char, its arms in the order of the source.  col and cs are
\* the column and the queue after first_char has been popped.
LexMatch(line, start, first_char, col, cs, fi, fd) ==
    CASE first_char = " " -> LexState(cs, col, fi, fd, <<>>, FALSE, NoError)
      [] first_char = ";" -> LexState(cs, col, fi, fd, <<>>, TRUE, NoError)
      [] first_char = "." -> DirectiveArm(line, start, first_char, col, cs, fi, fd)
      [] first_char \notin {" ", ";", "."} /\ IsIdentifierStart(first_char) ->
            IdentifierArm(line, start, first_char, col, cs, fi, fd)
      [] first_char = "\"" -> StringArm(line, start, first_char, col, cs, fi, fd)
      [] first_char = "%" -> PercentArm(line, start, first_char, col, cs, fi, fd)
      [] first_char \in {",", "#"} -> StructuralArm(line, start, first_char, col, cs, fi, fd)
      [] first_char = "$" -> HexArm(line, start, first_char, col, cs, fi, fd)
      [] first_char \notin {" ", ";", ".", "\"", "%", ",", "#", "$"}
         /\ ~IsIdentifierStart(first_char) /\ IsNumericChar(first_char) ->
            DecimalArm(line, start, first_char, col, cs, fi, fd)
      [] first_char \in {"[", "]", "(", ")"} ->
            StructuralArm(line, start, first_char, col, cs, fi, fd)
      [] OTHER ->
            LexState(cs, col, fi, fd, <<>>, FALSE,
                     Err("Unexpected value at start of token", line, start, col))

-----------------------------------------------------------------------------
(* tokenize_lines as a state machine: lex_pc is "line" at the head of the  *)
(* loop over the lines (line_number is then the index of the line to take  *)
(* next), "token" at the head of the loop over the characters of a line,   *)
(* "done" once the tokens are returned and "error" once report_error has   *)
(* ended the process.                                                      *)

LexStart(texts) ==
    /\ \E text \in texts : lines = SplitLines(text, <<>>)
    /\ line_number = 0
    /\ chars = <<>>
    /\ col_number = 0
    /\ found_instruction = FALSE
    /\ found_directive = FALSE
    /\ tokens = <<>>
    /\ lex_pc = "line"
    /\ lex_error = NoError

LexIdle ==
    /\ lines = <<>>
    /\ line_number = 0
    /\ chars = <<>>
    /\ col_number = 0
    /\ found_instruction = FALSE
    /\ found_directive = FALSE
    /\ tokens = <<>>
    /\ lex_pc = "idle"
    /\ lex_error = NoError

\* The head of the loop over the lines with the two flags declared outside the
\* loop: they keep their values from line to line.
NextLine_FlagsOutsideLoop ==
    /\ lex_pc = "line"
    /\ line_number < Len(lines)
    /\ chars' = lines[line_number + 1]
    /\ col_number' = 0
    /\ IF lines[line_number + 1] = <<>>
       THEN lex_pc' = "line" /\ line_number' = line_number + 1
       ELSE lex_pc' = "token" /\ line_number' = line_number
    /\ UNCHANGED <<lines, tokens, lex_error, found_instruction, found_directive>>
    /\ UNCHANGED <<numVars, instrVars, argVars, parseVars, asmVars, runVars>>

\* The head of 'for (line_number, line) in lines.iter().enumerate()': take the
\* next line and reset the per-line state; an empty line is skipped.
NextLine ==
    /\ lex_pc = "line"
    /\ line_number < Len(lines)
    /\ chars' = lines[line_number + 1]
    /\ col_number' = 0
    /\ found_instruction' = FALSE
    /\ found_directive' = FALSE
    /\ IF lines[line_number + 1] = <<>>
       THEN lex_pc' = "line" /\ line_number' = line_number + 1
       ELSE lex_pc' = "token" /\ line_number' = line_number
    /\ UNCHANGED <<lines, tokens, lex_error>>
    /\ UNCHANGED <<numVars, instrVars, argVars, parseVars, asmVars, runVars>>

\* The loop over the lines is exhausted: tokenize_lines returns tokens.
LexReturn ==
    /\ lex_pc = "line"
    /\ line_number = Len(lines)
    /\ lex_pc' = "done"
    /\ UNCHANGED <<lines, line_number, chars, col_number, found_instruction,
                   found_directive, tokens, lex_error>>
    /\ UNCHANGED <<numVars, instrVars, argVars, parseVars, asmVars, runVars>>

\* One iteration with a reporter that returns: the loop goes on after the error.
LexToken_ReporterReturns ==
    /\ lex_pc = "token"
    /\ chars /= <<>>
    /\ LET st == LexMatch(line_number, col_number, Head(chars), col_number + 1,
                          Tail(chars), found_instruction, found_directive)
       IN /\ chars' = st.chars
          /\ col_number' = st.col_number
          /\ found_instruction' = st.found_instruction
          /\ found_directive' = st.found_directive
          /\ tokens' = tokens \o st.emit
          /\ lex_error' = IF st.error /= NoError THEN st.error ELSE lex_error
          /\ IF st.brk \/ st.chars = <<>>
             THEN lex_pc' = "line" /\ line_number' = line_number + 1
             ELSE lex_pc' = "token" /\ line_number' = line_number
    /\ UNCHANGED lines
    /\ UNCHANGED <<numVars, instrVars, argVars, parseVars, asmVars, runVars>>

\* One iteration of 'while !chars.is_empty()'.
LexToken ==
    /\ lex_pc = "token"
    /\ chars /= <<>>
    /\ LET st == LexMatch(line_number, col_number, Head(chars), col_number + 1,
                          Tail(chars), found_instruction, found_directive)
       IN /\ chars' = st.chars
          /\ col_number' = st.col_number
          /\ found_instruction' = st.found_instruction
          /\ found_directive' = st.found_directive
          /\ tokens' = tokens \o st.emit
          /\ lex_error' = st.error
          /\ IF st.error /= NoError
             THEN lex_pc' = "error" /\ line_number' = line_number
             ELSE IF st.brk \/ st.chars = <<>>
             THEN lex_pc' = "line" /\ line_number' = line_number + 1
             ELSE lex_pc' = "token" /\ line_number' = line_number
    /\ UNCHANGED lines
    /\ UNCHANGED <<numVars, instrVars, argVars, parseVars, asmVars, runVars>>

LexNext == NextLine \/ LexReturn \/ LexToken

-----------------------------------------------------------------------------
(* The tokenize_lines of src/src/lib.rs, the one assemble_file calls.  It  *)
(* is the lexer above with shorter delimiter lists; its loop over the      *)
(* lines, its string arm and its single-character arms are the same code.  *)

\* read_to_char(' ', ...) of the directive arm
LibDirectiveDelimiters == {" "}

LibNameDelimiters == {" ", "]", ")"}

LibValueDelimiters == {" ", ",", ";"}

LibDirectiveArm(line, start, first_char, col, cs, fi, fd) ==
    LET r == read_to_chars(LibDirectiveDelimiters, col, cs)
        value == r.value.v
    IN IF ~r.value.some
       THEN LexError("Unexpected end of directive token", line, start, r, fi, fd)
       ELSE IF ~is_alphanumeric(value)
       THEN LexError("Directive names must be alphanumeric!", line, start, r, fi, fd)
       ELSE LexState(r.chars, r.col_number, fi, TRUE,
                     <<Token(line, start, r.col_number, <<first_char>> \o value,
                             "Directive", value)>>,
                     FALSE, NoError)

LibIdentifierArm(line, start, first_char, col, cs, fi, fd) ==
    LET r == read_to_chars(LibNameDelimiters, col, cs)
        value == IF r.value.some THEN r.value.v ELSE <<>>
        full_value == <<first_char>> \o value
    IN IF Last(full_value) = ":"
       THEN (IF ~is_alphanumeric(Front(full_value))
             THEN LexError("Label name must be alphanumeric!", line, start, r, fi, fd)
             ELSE LexState(r.chars, r.col_number, fi, fd,
                           <<Token(line, start, r.col_number, full_value,
                                   "Label", Front(full_value))>>,
                           FALSE, NoError))
       ELSE IF InstructionPosition(fi, fd)
       THEN (IF ~is_alphanumeric(full_value)
             THEN LexError("Instruction name must be alphanumeric!", line, start, r,
                           TRUE, fd)
             ELSE LexState(r.chars, r.col_number, TRUE, fd,
                           <<Token(line, start, r.col_number, full_value,
                                   "Instruction", full_value)>>,
                           FALSE, NoError))
       ELSE (IF ~is_alphanumeric(full_value)
             THEN LexError("Identifier name must be alphanumeric!", line, start, r, fi, fd)
             ELSE LexState(r.chars, r.col_number, fi, fd,
                           <<Token(line, start, r.col_number, full_value,
                                   "Identifier", full_value)>>,
                           FALSE, NoError))

LibPercentArm(line, start, first_char, col, cs, fi, fd) ==
    LET r == read_to_chars(LibValueDelimiters, col, cs)
        value == r.value.v
        full_value == <<first_char>> \o value
    IN IF ~r.value.some
       THEN LexError("Unexpected end of token", line, start, r, fi, fd)
       ELSE IF is_numeric(value)
       THEN (IF ~is_binary(value)
             THEN LexError("'%' Can only be used for binary literals!", line, start, r,
                           fi, fd)
             ELSE LexState(r.chars, r.col_number, fi, fd,
                           <<Token(line, start, r.col_number, full_value,
                                   "Binary", value)>>,
                           FALSE, NoError))
       ELSE IF ~is_alphanumeric(value)
       THEN LexError("Register names must be alphanumeric!", line, start, r, fi, fd)
       ELSE LexState(r.chars, r.col_number, fi, fd,
                     <<Token(line, start, r.col_number, full_value, "Register", value)>>,
                     FALSE, NoError)

LibHexArm(line, start, first_char, col, cs, fi, fd) ==
    LET r == read_to_chars(LibValueDelimiters, col, cs)
        value == r.value.v
        full_value == <<first_char>> \o value
    IN IF ~r.value.some
       THEN LexError("Unexpected end of hex literal token", line, start, r, fi, fd)
       ELSE IF ~is_alphanumeric(value)
       THEN LexError("Unexpected non-alphanumeric characters in hex literal!",
                     line, start, r, fi, fd)
       ELSE IF ~is_hex(value)
       THEN LexError("'$' Can only be used for hex literals!", line, start, r, fi, fd)
       ELSE LexState(r.chars, r.col_number, fi, fd,
                     <<Token(line, start, r.col_number, full_value, "Hex", value)>>,
                     FALSE, NoError)

LibDecimalArm(line, start, first_char, col, cs, fi, fd) ==
    LET r == read_to_chars(LibValueDelimiters, col, cs)
        value == IF r.value.some THEN r.value.v ELSE <<>>
        full_value == <<first_char>> \o value
    IN IF ~is_numeric(value)
       THEN LexError("Unexpected non-numeric characters in decimal literal!",
                     line, start, r, fi, fd)
       ELSE LexState(r.chars, r.col_number, fi, fd,
                     <<Token(line, start, r.col_number, full_value,
                             "Decimal", full_value)>>,
                     FALSE, NoError)

LibLexMatch(line, start, first_char, col, cs, fi, fd) ==
    CASE first_char = " " -> LexState(cs, col, fi, fd, <<>>, FALSE, NoError)
      [] first_char = ";" -> LexState(cs, col, fi, fd, <<>>, TRUE, NoError)
      [] first_char = "." -> LibDirectiveArm(line, start, first_char, col, cs, fi, fd)
      [] first_char \notin {" ", ";", "."} /\ IsIdentifierStart(first_char) ->
            LibIdentifierArm(line, start, first_char, col, cs, fi, fd)
      [] first_char = "\"" -> StringArm(line, start, first_char, col, cs, fi, fd)
      [] first_char = "%" -> LibPercentArm(line, start, first_char, col, cs, fi, fd)
      [] first_char \in {",", "#"} -> StructuralArm(line, start, first_char, col, cs, fi, fd)
      [] first_char = "$" -> LibHexArm(line, start, first_char, col, cs, fi, fd)
      [] first_char \notin {" ", ";", ".", "\"", "%", ",", "#", "$"}
         /\ ~IsIdentifierStart(first_char) /\ IsNumericChar(first_char) ->
            LibDecimalArm(line, start, first_char, col, cs, fi, fd)
      [] first_char \in {"[", "]", "(", ")"} ->
            StructuralArm(line, start, first_char, col, cs, fi, fd)
      [] OTHER ->
            LexState(cs, col, fi, fd, <<>>, FALSE,
                     Err("Unexpected value at start of token", line, start, col))

\* One iteration of 'while !chars.is_empty()' in src/src/lib.rs.
LibLexToken ==
    /\ lex_pc = "token"
    /\ chars /= <<>>
    /\ LET st == LibLexMatch(line_number, col_number, Head(chars), col_number + 1,
                          Tail(chars), found_instruction, found_directive)
       IN /\ chars' = st.chars
          /\ col_number' = st.col_number
          /\ found_instruction' = st.found_instruction
          /\ found_directive' = st.found_directive
          /\ tokens' = tokens \o st.emit
          /\ lex_error' = st.error
          /\ IF st.error /= NoError
             THEN lex_pc' = "error" /\ line_number' = line_number
             ELSE IF st.brk \/ st.chars = <<>>
             THEN lex_pc' = "line" /\ line_number' = line_number + 1
             ELSE lex_pc' = "token" /\ line_number' = line_number
    /\ UNCHANGED lines
    /\ UNCHANGED <<numVars, instrVars, argVars, parseVars, asmVars, runVars>>

-----------------------------------------------------------------------------
(* Instruction arguments (enum InstructionArgumentType) and registers.     *)

\* An argument: its variant and its payload, a u16 (num), a label name (name) or
\* a register (reg); the payload fields a variant does not have are blank.
ArgNumber(variant, v) == [variant |-> variant, num |-> v, name |-> <<>>, reg |-> "-"]

ArgLabel(variant, n) == [variant |-> variant, num |-> 0, name |-> n, reg |-> "-"]

ArgRegister(r) == [variant |-> "Register", num |-> 0, name |-> <<>>, reg |-> r]

\* char::to_lowercase on the characters a register name can hold
ToLowerChar(c) ==
    LET up == {i \in DOMAIN UpperChars : UpperChars[i] = c}
    IN IF up = {} THEN c ELSE LowerChars[CHOOSE i \in up : TRUE]

\* The name compared as written.
to_lowercase_AsWritten(s) == s

to_lowercase(s) == [i \in DOMAIN s |-> ToLowerChar(s[i])]

\* Register::from_name: the register, or "-" for None
Register_from_name(name) ==
    LET n == to_lowercase(name)
    IN CASE n = <<"a", "x">> -> "AX"
         [] n = <<"b", "x">> -> "BX"
         [] n = <<"c", "x">> -> "CX"
         [] n = <<"d", "x">> -> "DX"
         [] n = <<"e", "x">> -> "EX"
         [] n = <<"e", "a", "x">> -> "EAX"
         [] n = <<"e", "b", "x">> -> "EBX"
         [] n = <<"e", "c", "x">> -> "ECX"
         [] n = <<"e", "d", "x">> -> "EDX"
         [] n = <<"e", "e", "x">> -> "EEX"
         [] OTHER -> "-"

\* The final check left out: whatever follows a recognized shape is ignored.
NothingFollows_Unchecked(rest, what, value) == Ok(value)

\* The check every arm of InstructionArgumentType::parse ends with: no token may
\* follow a recognized shape.
NothingFollows(rest, what, value) ==
    IF rest /= <<>> THEN ErrAt(what, Head(rest))
    ELSE Ok(value)

\* A number literal parsed to 'value' (or its error), with nothing after it.
NumberArgument(value, rest, what, variant) ==
    IF value.res /= "ok" THEN value
    ELSE NothingFollows(rest, what, ArgNumber(variant, value.value))

\* '(' and the address parsed to 'address' (or its error): ')' must follow, and
\* nothing after it.
IndirectArgument(address, address_token, after) ==
    IF address.res /= "ok" THEN address
    ELSE IF after = <<>>
    THEN ErrAt("Expected closing parenthesis after memory address!", address_token)
    ELSE IF Head(after).token_type /= "CloseParenthesis"
    THEN ErrAt("Unexpected token after memory address! Expected closing parenthesis!",
               Head(after))
    ELSE NothingFollows(Tail(after), "Unexpected token after indirect memory address!",
                        ArgNumber("MemoryAddressIndirect", address.value))

\* InstructionArgumentType::parse on the tokens of one argument (never empty)
InstructionArgumentType_parse(arg_tokens) ==
    LET first_token == Head(arg_tokens)
        rest == Tail(arg_tokens)
        kind == first_token.token_type
    IN CASE kind \in NumberKinds ->
              NumberArgument(parse_u16(first_token), rest,
                             "Unexpected token after number literal!", "MemoryAddress")
         [] kind = "Immediate" ->
              IF rest = <<>>
              THEN ErrAt("Expected number literal after immediate specifier '#'!",
                         first_token)
              ELSE LET number_token == Head(rest)
                   IN IF number_token.token_type \in NumberKinds
                      THEN NumberArgument(parse_u16(number_token), Tail(rest),
                                          "Unexpected token after immediate number literal!",
                                          "Immediate")
                      ELSE ErrAt("Unexpected token after immediate specifier!",
                                 number_token)
         [] kind = "OpenParenthesis" ->
              IF rest = <<>>
              THEN ErrAt("Expected memory address after opening parenthesis '('!",
                         first_token)
              ELSE IF Head(rest).token_type \notin NumberKinds
              THEN ErrAt("Unexpected token after opening parenthesis!", Head(rest))
              ELSE IndirectArgument(parse_u16(Head(rest)), Head(rest), Tail(rest))
         [] kind = "Identifier" ->
              NothingFollows(rest, "Unexpected token after label identifier!",
                             ArgLabel("LabelAddress", first_token.payload))
         [] kind = "OpenBracket" ->
              IF rest = <<>>
              THEN ErrAt("Expected label identifier after opening bracket '['!",
                         first_token)
              ELSE LET identifier_token == Head(rest)
                       after == Tail(rest)
                   IN IF identifier_token.token_type /= "Identifier"
                      THEN ErrAt("Unexpected token after opening bracket! Expected label identifier!",
                                 identifier_token)
                      ELSE IF after = <<>>
                      THEN ErrAt("Expected closing bracket after label identifier!",
                                 identifier_token)
                      ELSE IF Head(after).token_type /= "CloseBracket"
                      THEN ErrAt("Unexpected token after label identifier! Expected closing bracket!",
                                 Head(after))
                      ELSE NothingFollows(Tail(after), "Unexpected token after label dereference!",
                                          ArgLabel("LabelValue", identifier_token.payload))
         [] kind = "Register" ->
              IF rest /= <<>>
              THEN ErrAt("Unexpected token after register name!", Head(rest))
              ELSE LET register == Register_from_name(first_token.payload)
                   IN IF register = "-"
                      THEN ErrAt("Register name is invalid!", first_token)
                      ELSE Ok(ArgRegister(register))
         [] OTHER -> ErrAt("Unexpected token in argument list!", first_token)

-----------------------------------------------------------------------------
(* split_tokens_by_commas and InstructionArguments::parse                  *)

CommaMisplacedLeadingOnly(current_argument, remaining) ==
    current_argument = <<>>

\* The comma arm's test: two commas in a row, a comma before the first argument,
\* or a comma at the end of the line.
CommaMisplaced(current_argument, remaining) ==
    current_argument = <<>> \/ remaining = <<>>

RECURSIVE SplitLoop(_, _, _)
SplitLoop(remaining, current_argument, result) ==
    IF remaining = <<>>
    THEN Ok(IF current_argument /= <<>> THEN Append(result, current_argument)
            ELSE result)
    ELSE LET token == Head(remaining)
         IN IF token.token_type = "Comma"
            THEN (IF CommaMisplaced(current_argument, Tail(remaining))
                  THEN ErrAt("Unexpected argument separator ','!", token)
                  ELSE SplitLoop(Tail(remaining), <<>>,
                                 Append(result, current_argument)))
            ELSE SplitLoop(Tail(remaining), Append(current_argument, token), result)

split_tokens_by_commas(argument_tokens) == SplitLoop(argument_tokens, <<>>, <<>>)

\* while !args.is_empty() { arguments.push_back(InstructionArgumentType::parse(arg)) }
RECURSIVE ParseEachArgument(_, _)
RECURSIVE PushArgument(_, _, _)
ParseEachArgument(args, arguments) ==
    IF args = <<>> THEN Ok(arguments)
    ELSE PushArgument(InstructionArgumentType_parse(Head(args)), args, arguments)

PushArgument(a, args, arguments) ==
    IF a.res /= "ok" THEN a
    ELSE ParseEachArgument(Tail(args), Append(arguments, a.value))

\* The arguments of the groups 'args' that split_tokens_by_commas returned.
ArgumentsOf(args) ==
    IF args.res /= "ok" THEN args ELSE ParseEachArgument(args.value, <<>>)

\* InstructionArguments::parse
InstructionArguments_parse(argument_tokens) ==
    ArgumentsOf(split_tokens_by_commas(argument_tokens))

-----------------------------------------------------------------------------
(* Instruction::parse: overload resolution.  An Instruction is its variant *)
(* and its operands in order, each a u16 or a register.                    *)

U16(v) == [kind |-> "u16", num |-> v, reg |-> "-"]

Reg(r) == [kind |-> "Register", num |-> 0, reg |-> r]

Instr(variant, operands) == [variant |-> variant, operands |-> operands]

Mnemonic_nop == <<"n", "o", "p">>

Mnemonic_mov == <<"m", "o", "v">>

Mnemonic_add == <<"a", "d", "d">>

NoOverload == "Could not find valid overload of instruction for supplied argument types"

\* The match on (arg1, arg2) of "mov"; "none" for the default arm.
mov_overload_Memory8(arg1, arg2) ==
    LET v == <<arg1.variant, arg2.variant>>
    IN CASE v = <<"MemoryAddress", "Register">> ->
              Instr("mov_RegisterToMemory", <<U16(arg1.num), Reg(arg2.reg)>>)
         [] v = <<"Register", "MemoryAddress">> ->
              Instr("mov_MemoryToRegister", <<Reg(arg1.reg), U16(arg2.num)>>)
         [] v = <<"Register", "Immediate">> ->
              Instr("mov_ImmediateToRegister", <<Reg(arg1.reg), U16(arg2.num)>>)
         [] v = <<"Register", "Register">> ->
              Instr("mov_RegisterToRegister", <<Reg(arg1.reg), Reg(arg2.reg)>>)
         [] v = <<"MemoryAddress", "Immediate">> ->
              Instr("mov_ImmediateToMemory8", <<U16(arg1.num), U16(arg2.num)>>)
         [] OTHER -> Instr("none", <<>>)

mov_overload(arg1, arg2) ==
    LET v == <<arg1.variant, arg2.variant>>
    IN CASE v = <<"MemoryAddress", "Register">> ->
              Instr("mov_RegisterToMemory", <<U16(arg1.num), Reg(arg2.reg)>>)
         [] v = <<"Register", "MemoryAddress">> ->
              Instr("mov_MemoryToRegister", <<Reg(arg1.reg), U16(arg2.num)>>)
         [] v = <<"Register", "Immediate">> ->
              Instr("mov_ImmediateToRegister", <<Reg(arg1.reg), U16(arg2.num)>>)
         [] v = <<"Register", "Register">> ->
              Instr("mov_RegisterToRegister", <<Reg(arg1.reg), Reg(arg2.reg)>>)
         [] v = <<"MemoryAddress", "Immediate">> ->
              Instr("mov_ImmediateToMemory16", <<U16(arg1.num), U16(arg2.num)>>)
         [] OTHER -> Instr("none", <<>>)

\* The match on the single argument of "add".
add_overload_1(arg) ==
    CASE arg.variant = "Register" -> Instr("add_RegisterToAccumulator", <<Reg(arg.reg)>>)
      [] arg.variant = "Immediate" -> Instr("add_ImmediateToAccumulator", <<U16(arg.num)>>)
      [] OTHER -> Instr("none", <<>>)

\* The match on (arg1, arg2) of "add".
add_overload_2(arg1, arg2) ==
    LET v == <<arg1.variant, arg2.variant>>
    IN CASE v = <<"Register", "Register">> ->
              Instr("add_RegisterToRegister", <<Reg(arg1.reg), Reg(arg2.reg)>>)
         [] v = <<"Register", "Immediate">> ->
              Instr("add_ImmediateToRegister", <<Reg(arg1.reg), U16(arg2.num)>>)
         [] OTHER -> Instr("none", <<>>)

\* format!("... instruction expects {expected} arguments, but got {num_args}")
ArityMessage(expected, num_args) ==
    "instruction expects " \o expected \o " arguments, but got " \o ToString(num_args)

OverloadOrError(found, line, cs, ce) ==
    IF found.variant = "none" THEN Err(NoOverload, line, cs, ce) ELSE Ok(found)

\* Instruction::parse with the arity of mov and add checked from below only.
Instruction_parse_ArityAtLeast(mnemonic, arguments, line, cs, ce) ==
    LET num_args == Len(arguments)
    IN CASE mnemonic = Mnemonic_nop ->
              IF num_args /= 0
              THEN Err(ArityMessage("0", num_args), line, cs, ce)
              ELSE Ok(Instr("nop", <<>>))
         [] mnemonic = Mnemonic_mov ->
              IF num_args < 2
              THEN Err(ArityMessage("2", num_args), line, cs, ce)
              ELSE OverloadOrError(mov_overload(arguments[1], arguments[2]), line, cs, ce)
         [] mnemonic = Mnemonic_add ->
              IF num_args < 1
              THEN Err(ArityMessage("1 or 2", num_args), line, cs, ce)
              ELSE IF num_args = 1
              THEN OverloadOrError(add_overload_1(arguments[1]), line, cs, ce)
              ELSE OverloadOrError(add_overload_2(arguments[1], arguments[2]),
                                   line, cs, ce)
         [] OTHER -> Panic("not implemented")

\* Instruction::parse with the default arm reporting a missing overload.
Instruction_parse_DefaultNoOverload(mnemonic, arguments, line, cs, ce) ==
    LET num_args == Len(arguments)
    IN CASE mnemonic = Mnemonic_nop ->
              IF num_args /= 0
              THEN Err(ArityMessage("0", num_args), line, cs, ce)
              ELSE Ok(Instr("nop", <<>>))
         [] mnemonic = Mnemonic_mov ->
              IF num_args /= 2
              THEN Err(ArityMessage("2", num_args), line, cs, ce)
              ELSE OverloadOrError(mov_overload(arguments[1], arguments[2]), line, cs, ce)
         [] mnemonic = Mnemonic_add ->
              IF num_args < 1 \/ num_args > 2
              THEN Err(ArityMessage("1 or 2", num_args), line, cs, ce)
              ELSE IF num_args = 1
              THEN OverloadOrError(add_overload_1(arguments[1]), line, cs, ce)
              ELSE OverloadOrError(add_overload_2(arguments[1], arguments[2]),
                                   line, cs, ce)
         [] OTHER -> Err(NoOverload, line, cs, ce)

Instruction_parse(mnemonic, arguments, line, cs, ce) ==
    LET num_args == Len(arguments)
    IN CASE mnemonic = Mnemonic_nop ->
              IF num_args /= 0
              THEN Err(ArityMessage("0", num_args), line, cs, ce)
              ELSE Ok(Instr("nop", <<>>))
         [] mnemonic = Mnemonic_mov ->
              IF num_args /= 2
              THEN Err(ArityMessage("2", num_args), line, cs, ce)
              ELSE OverloadOrError(mov_overload(arguments[1], arguments[2]), line, cs, ce)
         [] mnemonic = Mnemonic_add ->
              IF num_args < 1 \/ num_args > 2
              THEN Err(ArityMessage("1 or 2", num_args), line, cs, ce)
              ELSE IF num_args = 1
              THEN OverloadOrError(add_overload_1(arguments[1]), line, cs, ce)
              ELSE OverloadOrError(add_overload_2(arguments[1], arguments[2]),
                                   line, cs, ce)
         [] OTHER -> Panic("not implemented")

-----------------------------------------------------------------------------
(* The token readers of the parser.  Each yields the tokens it took and    *)
(* the tokens it left.                                                     *)

Name_data == <<"d", "a", "t", "a">>

Name_text == <<"t", "e", "x", "t">>

Name_ascii == <<"a", "s", "c", "i", "i">>

Name_word == <<"w", "o", "r", "d">>

IsSectionDirective(tok) ==
    tok.token_type = "Directive" /\ tok.payload \in {Name_data, Name_text}

EndsLabelRunAtSectionOnly(tok) == IsSectionDirective(tok)

\* The tokens at which read_tokens_to_label_or_eos stops.
EndsLabelRun(tok) == IsSectionDirective(tok) \/ tok.token_type = "Label"

RECURSIVE LabelRunLength(_)
LabelRunLength(toks) ==
    IF toks = <<>> \/ EndsLabelRun(Head(toks)) THEN 0
    ELSE 1 + LabelRunLength(Tail(toks))

read_tokens_to_label_or_eos(toks) ==
    LET n == LabelRunLength(toks)
    IN [taken |-> SubSeq(toks, 1, n), left |-> Drop(toks, n)]

RECURSIVE SameLineLength(_, _)
SameLineLength(toks, line) ==
    IF toks = <<>> \/ Head(toks).line_number /= line THEN 0
    ELSE 1 + SameLineLength(Tail(toks), line)

\* A line-group of the first token alone.
read_tokens_to_eol_FirstTokenOnly(toks) ==
    IF toks = <<>> THEN [taken |-> <<>>, left |-> <<>>]
    ELSE [taken |-> SubSeq(toks, 1, 1), left |-> Drop(toks, 1)]

read_tokens_to_eol(toks) ==
    IF toks = <<>> THEN [taken |-> <<>>, left |-> <<>>]
    ELSE LET n == 1 + SameLineLength(Tail(toks), Head(toks).line_number)
         IN [taken |-> SubSeq(toks, 1, n), left |-> Drop(toks, n)]

-----------------------------------------------------------------------------
(* The body of a data label: (directive, value) pairs.                     *)

StringLiteral(s) == [kind |-> "StringLiteral", string |-> s, word |-> 0]

Word(v) == [kind |-> "Word", string |-> <<>>, word |-> v]

\* constants.push(ConstantLabelType::Word(value)), unless the value is an error.
WordConstant(v) == IF v.res = "ok" THEN Ok(Word(v.value)) ELSE v

\* One (directive, value) pair: the constant, or the error reported.
ParseConstant(directive_token, constant_token) ==
    IF directive_token.token_type /= "Directive"
    THEN ErrAt("First token in a constant must be a directive!", directive_token)
    ELSE CASE directive_token.payload = Name_ascii ->
                IF constant_token.token_type /= "AsciiString"
                THEN ErrAt("Expected string literal after .ascii directive!",
                           constant_token)
                ELSE Ok(StringLiteral(constant_token.payload))
           [] directive_token.payload = Name_word ->
                IF constant_token.token_type \in NumberKinds
                THEN WordConstant(word_value(constant_token))
                ELSE IF constant_token.token_type = "Immediate"
                THEN ErrAt("The .word directive does not require an immediate '#' marker!",
                           constant_token)
                ELSE ErrAt("Expected a number literal after .word directive!",
                           constant_token)
           [] OTHER -> ErrAt("Unknown constant directive!", directive_token)

\* while !constant_tokens.is_empty() { ... }
RECURSIVE ParseConstants(_, _)
RECURSIVE PushConstant(_, _, _)
ParseConstants(constant_tokens, constants) ==
    IF constant_tokens = <<>> THEN Ok(constants)
    ELSE IF Len(constant_tokens) = 1
    THEN ErrAt("Expected at least 2 tokens in constant.", Head(constant_tokens))
    ELSE PushConstant(ParseConstant(constant_tokens[1], constant_tokens[2]),
                      constant_tokens, constants)

\* The pair loop taking one token per constant.
PushConstant_OneTokenTaken(c, constant_tokens, constants) ==
    IF c.res /= "ok" THEN c
    ELSE ParseConstants(Drop(constant_tokens, 1), Append(constants, c.value))

PushConstant(c, constant_tokens, constants) ==
    IF c.res /= "ok" THEN c
    ELSE ParseConstants(Drop(constant_tokens, 2), Append(constants, c.value))

-----------------------------------------------------------------------------
(* The body of a subroutine label: one instruction per source line.        *)

\* Instruction::parse on the parsed arguments of a line, unless they are an error.
InstructionOfLine(arguments, first_line_token, line) ==
    IF arguments.res /= "ok" THEN arguments
    ELSE Instruction_parse(first_line_token.payload, arguments.value,
                           first_line_token.line_number,
                           first_line_token.column_start,
                           Last(line).column_end)

\* One line-group: its first token must be an Instruction, the rest are the
\* argument tokens; the error span of Instruction::parse is the whole line.
ParseInstructionLine(line) ==
    IF Head(line).token_type /= "Instruction"
    THEN ErrAt("Lines inside a subroutine must start with an instruction", Head(line))
    ELSE InstructionOfLine(InstructionArguments_parse(Tail(line)), Head(line), line)

\* while !subroutine_tokens.is_empty() { ... }
RECURSIVE ParseInstructions(_, _)
RECURSIVE PushInstruction(_, _, _)
ParseInstructions(subroutine_tokens, instructions) ==
    IF subroutine_tokens = <<>> THEN Ok(instructions)
    ELSE PushInstruction(
             ParseInstructionLine(read_tokens_to_eol(subroutine_tokens).taken),
             read_tokens_to_eol(subroutine_tokens).left, instructions)

PushInstruction(instruction_of_line, left, instructions) ==
    IF instruction_of_line.res /= "ok" THEN instruction_of_line
    ELSE ParseInstructions(left, Append(instructions, instruction_of_line.value))

-----------------------------------------------------------------------------
(* build_program as a state machine.  parse_pc is "top" at the head of the *)
(* loop of build_program, "data" / "text" at the head of the label loop of *)
(* DataSection::parse / TextSection::parse (labels holds the labels parsed *)
(* so far in that section), "done" once the Program is returned, "error"   *)
(* once report_error has ended the process and "panic" after a panic.      *)
(* source_tokens keeps the token sequence build_program was called with.   *)

NoSection == [some |-> FALSE, labels |-> <<>>]

SomeSection(ls) == [some |-> TRUE, labels |-> ls]

LabelOf(name, body) == [name |-> name, body |-> body]

ParseStart(programs) ==
    /\ \E shapeLines \in programs : source_tokens = LayOutLines(shapeLines, 0)
    /\ queue = source_tokens
    /\ ast = [text |-> NoSection, data |-> NoSection]
    /\ labels = <<>>
    /\ parse_pc = "top"
    /\ parse_error = NoError

ParseIdle ==
    /\ source_tokens = <<>>
    /\ queue = <<>>
    /\ ast = [text |-> NoSection, data |-> NoSection]
    /\ labels = <<>>
    /\ parse_pc = "idle"
    /\ parse_error = NoError

Fail(e, q) ==
    /\ parse_pc' = IF e.res = "panic" THEN "panic" ELSE "error"
    /\ parse_error' = e
    /\ queue' = q
    /\ UNCHANGED <<source_tokens, ast, labels>>

SectionPresentNever(slot) == FALSE

\* ast.data.is_none() / ast.text.is_none(), negated
SectionPresent(slot) == slot.some

\* The loop of build_program taking every directive but 'data' for 'text'.
BuildProgramStep_DirectiveDefaultsToText ==
    /\ parse_pc = "top"
    /\ queue /= <<>>
    /\ LET token == Head(queue)
       IN IF token.token_type /= "Directive"
          THEN Fail(ErrAt("Unexpected token. Program should start with either .data or .text section directive!",
                          token), Tail(queue))
          ELSE IF token.payload = Name_data
          THEN (IF SectionPresent(ast.data)
                THEN Fail(ErrAt("Duplicate section '.data'", token), Tail(queue))
                ELSE /\ parse_pc' = "data"
                     /\ labels' = <<>>
                     /\ queue' = Tail(queue)
                     /\ UNCHANGED <<source_tokens, ast, parse_error>>)
          ELSE (IF SectionPresent(ast.text)
                THEN Fail(ErrAt("Duplicate section '.text'", token), Tail(queue))
                ELSE /\ parse_pc' = "text"
                     /\ labels' = <<>>
                     /\ queue' = Tail(queue)
                     /\ UNCHANGED <<source_tokens, ast, parse_error>>)
    /\ UNCHANGED <<lexVars, numVars, instrVars, argVars, asmVars, runVars>>

\* One iteration of the loop of build_program: pop a token, which must be the
\* directive of a section not parsed yet, and enter that section's parser.
BuildProgramStep ==
    /\ parse_pc = "top"
    /\ queue /= <<>>
    /\ LET token == Head(queue)
       IN IF token.token_type /= "Directive"
          THEN Fail(ErrAt("Unexpected token. Program should start with either .data or .text section directive!",
                          token), Tail(queue))
          ELSE IF token.payload = Name_data
          THEN (IF SectionPresent(ast.data)
                THEN Fail(ErrAt("Duplicate section '.data'", token), Tail(queue))
                ELSE /\ parse_pc' = "data"
                     /\ labels' = <<>>
                     /\ queue' = Tail(queue)
                     /\ UNCHANGED <<source_tokens, ast, parse_error>>)
          ELSE IF token.payload = Name_text
          THEN (IF SectionPresent(ast.text)
                THEN Fail(ErrAt("Duplicate section '.text'", token), Tail(queue))
                ELSE /\ parse_pc' = "text"
                     /\ labels' = <<>>
                     /\ queue' = Tail(queue)
                     /\ UNCHANGED <<source_tokens, ast, parse_error>>)
          ELSE Fail(ErrAt("Expected program to start with either .data or .text section!",
                          token), Tail(queue))
    /\ UNCHANGED <<lexVars, numVars, instrVars, argVars, asmVars, runVars>>

\* The loop of build_program ends: the Program is returned.
BuildProgramReturn ==
    /\ parse_pc = "top"
    /\ queue = <<>>
    /\ parse_pc' = "done"
    /\ UNCHANGED <<source_tokens, queue, ast, labels, parse_error>>
    /\ UNCHANGED <<lexVars, numVars, instrVars, argVars, asmVars, runVars>>

\* The label loop without the test for an empty run.
LabelStep_EmptyRunAccepted(first_token, run, body, unexpected) ==
    IF first_token.token_type = "Directive"
    THEN Fail(ErrAt("Illegal directive token", first_token), Tail(queue))
    ELSE IF first_token.token_type /= "Label"
    THEN Fail(ErrAt(unexpected, first_token), Tail(queue))
    ELSE IF body.res /= "ok"
    THEN Fail(body, run.left)
    ELSE /\ labels' = Append(labels, LabelOf(first_token.payload, body.value))
         /\ queue' = run.left
         /\ UNCHANGED <<source_tokens, ast, parse_pc, parse_error>>

\* One iteration of the label loop of a section on a first token that is no
\* section directive: first_token must be a Label, the run of tokens read up to
\* the next label or section must not be empty, and its parsed body (or the
\* error met in it) is pushed as a label of the section.
LabelStep(first_token, run, body, unexpected) ==
    IF first_token.token_type = "Directive"
    THEN Fail(ErrAt("Illegal directive token", first_token), Tail(queue))
    ELSE IF first_token.token_type /= "Label"
    THEN Fail(ErrAt(unexpected, first_token), Tail(queue))
    ELSE IF Len(run.taken) = 0
    THEN Fail(ErrAt("Label cannot be empty!", first_token), run.left)
    ELSE IF body.res /= "ok"
    THEN Fail(body, run.left)
    ELSE /\ labels' = Append(labels, LabelOf(first_token.payload, body.value))
         /\ queue' = run.left
         /\ UNCHANGED <<source_tokens, ast, parse_pc, parse_error>>

\* DataSection::parse returning without pushing the directive back.
DataSectionReturn_DirectiveConsumed ==
    /\ parse_pc = "data"
    /\ \/ queue = <<>>
       \/ queue /= <<>> /\ IsSectionDirective(Head(queue))
    /\ ast' = [ast EXCEPT !.data = SomeSection(labels)]
    /\ labels' = <<>>
    /\ parse_pc' = "top"
    /\ queue' = IF queue = <<>> THEN queue ELSE Tail(queue)
    /\ UNCHANGED <<source_tokens, parse_error>>
    /\ UNCHANGED <<lexVars, numVars, instrVars, argVars, asmVars, runVars>>

\* DataSection::parse returns: no token is left, or the token popped is a
\* data/text directive, which is pushed back.  build_program stores the section.
DataSectionReturn ==
    /\ parse_pc = "data"
    /\ \/ queue = <<>>
       \/ queue /= <<>> /\ IsSectionDirective(Head(queue))
    /\ ast' = [ast EXCEPT !.data = SomeSection(labels)]
    /\ labels' = <<>>
    /\ parse_pc' = "top"
    /\ UNCHANGED <<source_tokens, queue, parse_error>>
    /\ UNCHANGED <<lexVars, numVars, instrVars, argVars, asmVars, runVars>>

\* One iteration of the label loop of DataSection::parse: the Label, its run, and
\* the run parsed as (directive, value) pairs.
DataSectionLabel ==
    /\ parse_pc = "data"
    /\ queue /= <<>>
    /\ ~IsSectionDirective(Head(queue))
    /\ LabelStep(Head(queue), read_tokens_to_label_or_eos(Tail(queue)),
                 ParseConstants(read_tokens_to_label_or_eos(Tail(queue)).taken, <<>>),
                 "Unexpected token in data section.")
    /\ UNCHANGED <<lexVars, numVars, instrVars, argVars, asmVars, runVars>>

\* TextSection::parse pushing the directive back on top of itself.
TextSectionReturn_DirectivePushedTwice ==
    /\ parse_pc = "text"
    /\ \/ queue = <<>>
       \/ queue /= <<>> /\ IsSectionDirective(Head(queue))
    /\ ast' = [ast EXCEPT !.text = SomeSection(labels)]
    /\ labels' = <<>>
    /\ parse_pc' = "top"
    /\ queue' = IF queue = <<>> THEN queue ELSE <<Head(queue)>> \o queue
    /\ UNCHANGED <<source_tokens, parse_error>>
    /\ UNCHANGED <<lexVars, numVars, instrVars, argVars, asmVars, runVars>>

\* TextSection::parse returns, as DataSection::parse does.
TextSectionReturn ==
    /\ parse_pc = "text"
    /\ \/ queue = <<>>
       \/ queue /= <<>> /\ IsSectionDirective(Head(queue))
    /\ ast' = [ast EXCEPT !.text = SomeSection(labels)]
    /\ labels' = <<>>
    /\ parse_pc' = "top"
    /\ UNCHANGED <<source_tokens, queue, parse_error>>
    /\ UNCHANGED <<lexVars, numVars, instrVars, argVars, asmVars, runVars>>

\* One iteration of the label loop of TextSection::parse: the Label, its run, and
\* the run parsed one source line at a time.
TextSectionLabel ==
    /\ parse_pc = "text"
    /\ queue /= <<>>
    /\ ~IsSectionDirective(Head(queue))
    /\ LabelStep(Head(queue), read_tokens_to_label_or_eos(Tail(queue)),
                 ParseInstructions(read_tokens_to_label_or_eos(Tail(queue)).taken, <<>>),
                 "Unexpected token in text section.")
    /\ UNCHANGED <<lexVars, numVars, instrVars, argVars, asmVars, runVars>>

ParseNext ==
    \/ BuildProgramStep
    \/ BuildProgramReturn
    \/ DataSectionReturn
    \/ DataSectionLabel
    \/ TextSectionReturn
    \/ TextSectionLabel

\* build_program on programs that hold no data section.
TextNext ==
    \/ BuildProgramStep
    \/ BuildProgramReturn
    \/ TextSectionReturn
    \/ TextSectionLabel

\* build_program on programs that hold no text section.
DataNext ==
    \/ BuildProgramStep
    \/ BuildProgramReturn
    \/ DataSectionReturn
    \/ DataSectionLabel

-----------------------------------------------------------------------------
(* The parser on the tokens of the lexer: build_program is entered with    *)
(* the token queue that tokenize_lines returned.                           *)

BuildProgramCall ==
    /\ lex_pc = "done"
    /\ parse_pc = "idle"
    /\ source_tokens' = tokens
    /\ queue' = tokens
    /\ ast' = [text |-> NoSection, data |-> NoSection]
    /\ labels' = <<>>
    /\ parse_pc' = "top"
    /\ parse_error' = NoError
    /\ UNCHANGED <<lexVars, numVars, instrVars, argVars, asmVars, runVars>>

PipelineNext == LexNext \/ BuildProgramCall \/ ParseNext

-----------------------------------------------------------------------------
(* A second run: tokenize_lines and build_program are called again on the  *)
(* same lines once the first run has stopped.  first_run keeps what the    *)
(* first run ended with.  Each call starts from its own locals only: the   *)
(* per-line locals of the lexer and the locals of the parser are left as   *)
(* the first run left them until the code assigns them.                    *)

FirstRun ==
    /\ run_number = 1
    /\ first_run = NoError

SecondRun ==
    /\ run_number = 1
    /\ lex_pc = "error" \/ parse_pc \in {"done", "error", "panic"}
    /\ first_run' = [tokens |-> tokens, lex_pc |-> lex_pc, lex_error |-> lex_error,
                     parse_pc |-> parse_pc, parse_error |-> parse_error, ast |-> ast]
    /\ run_number' = 2
    /\ tokens' = <<>>
    /\ line_number' = 0
    /\ lex_pc' = "line"
    /\ lex_error' = NoError
    /\ parse_pc' = "idle"
    /\ parse_error' = NoError
    /\ UNCHANGED <<lines, chars, col_number, found_instruction, found_directive>>
    /\ UNCHANGED <<source_tokens, queue, ast, labels>>
    /\ UNCHANGED <<numVars, instrVars, argVars, asmVars>>

TwoRunsNext == PipelineNext \/ SecondRun

-----------------------------------------------------------------------------
(* assemble_file (src/src/lib.rs): the file is read, split into lines and  *)
(* tokenized, and the tokens are printed.  asm_pc is "read" once the file  *)
(* is read, "tokenize" during the call of tokenize_lines and "returned"    *)
(* when assemble_file returns.                                             *)

AsmIdle ==
    /\ content = <<>>
    /\ asm_pc = "idle"
    /\ printed = <<>>

\* let content = String::from_utf8(fs::read(&path)...)
AssembleStart(texts) ==
    /\ content \in texts
    /\ asm_pc = "read"
    /\ printed = <<>>

\* let lines = content.lines()...collect(); tokenize_lines(&path, &lines) is
\* entered.
SplitIntoLines ==
    /\ asm_pc = "read"
    /\ lines' = SplitLines(content, <<>>)
    /\ asm_pc' = "tokenize"
    /\ lex_pc' = "line"
    /\ UNCHANGED <<line_number, chars, col_number, found_instruction,
                   found_directive, tokens, lex_error>>
    /\ UNCHANGED <<content, printed>>
    /\ UNCHANGED <<numVars, instrVars, argVars, parseVars, runVars>>

\* tokenize_lines has returned: the tokens are printed and assemble_file
\* returns.
PrintTokens ==
    /\ asm_pc = "tokenize"
    /\ lex_pc = "done"
    /\ printed' = tokens
    /\ asm_pc' = "returned"
    /\ UNCHANGED content
    /\ UNCHANGED <<lexVars, numVars, instrVars, argVars, parseVars, runVars>>

AssembleNext == SplitIntoLines \/ NextLine \/ LexReturn \/ LibLexToken \/ PrintTokens

\* format!("{}", n): the decimal digits of n.
RECURSIVE DecimalString(_)
DecimalString(n) ==
    IF n < 10 THEN <<DecDigitChars[n + 1]>>
    ELSE Append(DecimalString(n \div 10), DecDigitChars[(n % 10) + 1])

\* format!("{:>3}", n): right-aligned in a field of at least three characters.
RightAligned3(n) ==
    LET digits == DecimalString(n)
    IN IF Len(digits) >= 3 THEN digits ELSE Repeat(" ", 3 - Len(digits)) \o digits

\* report_tokenizer_error: what is written to the error stream, without its
\* colours and the file path, and the exit status.  'location' is the
\* line:column pair of the second output line, 'context' the source lines
\* printed with their numbers, 'underline' the line of carets and 'here' the
\* last line.
report_tokenizer_error(error, source_lines, line, col_start, col_end) ==
    LET start == IF line < 2 THEN 0 ELSE line - 2
    IN [message |-> error,
        location |-> <<line + 1, col_start + 1>>,
        context |-> [i \in 1..(line + 1 - start) |->
                        RightAligned3(start + i) \o <<":", " ">>
                            \o source_lines[start + i]],
        underline |-> Repeat(" ", col_start + 5)
                          \o Repeat("^", IF col_start < col_end
                                         THEN col_end - col_start ELSE 0),
        here |-> Repeat(" ", col_start + 5) \o <<"h", "e", "r", "e">>,
        exit |-> 1]

\* A report_tokenizer_error call of the lexer: the diagnostic is printed and
\* the process exits.
ReportTokenizerError ==
    /\ asm_pc = "tokenize"
    /\ lex_pc = "error"
    /\ printed' = report_tokenizer_error(lex_error.message, lines,
                                         lex_error.line_number,
                                         lex_error.col_start, lex_error.col_end)
    /\ asm_pc' = "exited"
    /\ UNCHANGED content
    /\ UNCHANGED <<lexVars, numVars, instrVars, argVars, parseVars, runVars>>

ReportNext == NextLine \/ LibLexToken \/ ReportTokenizerError

-----------------------------------------------------------------------------
(* The numeric conversions on a number token: as an instruction operand    *)
(* (InstructionArgumentType::parse calls Token::parse_u16) and as the      *)
(* value of a .word constant (DataSection::parse converts inline).         *)

NumIdle ==
    /\ num_token = Token(0, 0, 0, <<>>, "none", <<>>)
    /\ operand_result = NoError
    /\ word_result = NoError
    /\ num_pc = "idle"

NumStart(kinds) ==
    /\ \E kind \in kinds : \E digits \in DigitStrings(kind) :
            num_token = NumberToken(kind, digits)
    /\ operand_result = NoError
    /\ word_result = NoError
    /\ num_pc = "token"

WordDirective(line) ==
    Token(line, 0, 5, <<".">> \o Name_word, "Directive", Name_word)

ParseOperand ==
    /\ num_pc = "token"
    /\ operand_result = NoError
    /\ operand_result' = InstructionArgumentType_parse(<<num_token>>)
    /\ UNCHANGED <<num_token, word_result, num_pc>>
    /\ UNCHANGED <<lexVars, instrVars, argVars, parseVars, asmVars, runVars>>

ParseWord ==
    /\ num_pc = "token"
    /\ word_result = NoError
    /\ word_result' = ParseConstants(<<WordDirective(num_token.line_number), num_token>>,
                                     <<>>)
    /\ UNCHANGED <<num_token, operand_result, num_pc>>
    /\ UNCHANGED <<lexVars, instrVars, argVars, parseVars, asmVars, runVars>>

NumNext == ParseOperand \/ ParseWord

-----------------------------------------------------------------------------
(* Instruction::parse on a mnemonic and a list of parsed arguments.        *)

InstrIdle ==
    /\ instruction_mnemonic = <<>>
    /\ instruction_arguments = <<>>
    /\ instruction = NoError
    /\ instr_pc = "idle"

InstrStart(mnemonics, arguments) ==
    /\ instruction_mnemonic \in mnemonics
    /\ instruction_arguments \in arguments
    /\ instruction = NoError
    /\ instr_pc = "call"

InstructionParse ==
    /\ instr_pc = "call"
    /\ instruction' = Instruction_parse(instruction_mnemonic, instruction_arguments,
                                        0, 0, 1)
    /\ instr_pc' = "done"
    /\ UNCHANGED <<instruction_mnemonic, instruction_arguments>>
    /\ UNCHANGED <<lexVars, numVars, argVars, parseVars, asmVars, runVars>>

-----------------------------------------------------------------------------
(* The argument tokens of one instruction line: split_tokens_by_commas on  *)
(* them, and the parse of the line they belong to.                         *)

ArgIdle ==
    /\ line_arguments = <<>>
    /\ split_result = NoError
    /\ line_result = NoError
    /\ arg_pc = "idle"

ArgStart(shapeLines) ==
    /\ \E shapes \in shapeLines : line_arguments = LayOut(shapes, 0, 4)
    /\ split_result = NoError
    /\ line_result = NoError
    /\ arg_pc = "call"

MovToken == Token(0, 0, 3, Mnemonic_mov, "Instruction", Mnemonic_mov)

SplitArguments ==
    /\ arg_pc = "call"
    /\ split_result' = split_tokens_by_commas(line_arguments)
    /\ line_result' = ParseInstructionLine(<<MovToken>> \o line_arguments)
    /\ arg_pc' = "done"
    /\ UNCHANGED line_arguments
    /\ UNCHANGED <<lexVars, numVars, instrVars, parseVars, asmVars, runVars>>

-----------------------------------------------------------------------------
(* InstructionArgumentType::parse on the tokens of one argument, one of    *)
(* the groups split_tokens_by_commas returns.                              *)

ArgumentStart(shapeLines) ==
    /\ \E shapes \in shapeLines : line_arguments = LayOut(shapes, 0, 4)
    /\ split_result = NoError
    /\ line_result = NoError
    /\ arg_pc = "argument"

ParseArgument ==
    /\ arg_pc = "argument"
    /\ line_result' = InstructionArgumentType_parse(line_arguments)
    /\ arg_pc' = "done"
    /\ UNCHANGED <<line_arguments, split_result>>
    /\ UNCHANGED <<lexVars, numVars, instrVars, parseVars, asmVars, runVars>>

-----------------------------------------------------------------------------
(* Inputs.                                                                 *)

\* Parsed arguments: every variant, with two payloads each for the numbers and
\* the registers.
ArgumentValues ==
    {ArgNumber(v, n) : v \in {"Immediate", "MemoryAddress", "MemoryAddressIndirect"},
                       n \in {0, U16Max}}
    \cup {ArgLabel(v, <<"a">>) : v \in {"LabelAddress", "LabelValue"}}
    \cup {ArgRegister(r) : r \in {"AX", "EEX"}}

\* The implemented mnemonics, two the target instruction set names but the parser
\* does not implement, and 'nop' in capitals.
Mnemonics ==
    {Mnemonic_nop, Mnemonic_mov, Mnemonic_add, <<"i", "n", "c">>, <<"j", "s", "r">>,
     <<"N", "O", "P">>}

\* Argument tokens of an instruction line, after the mnemonic 'mov'.
ArgumentShapes ==
    {CommaShape, ImmediateShape, RegisterShape(<<"a", "x">>), DecimalShape(<<"1">>)}

\* Source lines of a program, as the token shapes the lexer makes of them.
ProgramLineShapes ==
    {<<DirectiveShape(Name_data)>>,
     <<DirectiveShape(Name_text)>>,
     <<LabelShape(<<"a">>)>>,
     <<DirectiveShape(Name_word), DecimalShape(<<"1">>)>>,
     <<InstructionShape(Mnemonic_nop)>>,
     <<DirectiveShape(Name_word)>>,
     <<LabelShape(<<"a">>), DirectiveShape(Name_word), DecimalShape(<<"1">>)>>,
     <<LabelShape(<<"a">>), InstructionShape(Mnemonic_nop)>>}

\* One representative of each character class the lexer distinguishes.
LexAlphabet ==
    {" ", ",", ";", "(", ")", "[", "]", ".", ":", "\"", "\\", "%", "$", "#",
     "a", "_", "1", "2"}

\* The characters that decide how a name is classified, and the line break.
NameAlphabet == {"a", ":", ".", " ", ",", ";", "\n"}

\* Source lines of a program: the section directives, a label, instruction lines
\* with and without operands, an unimplemented mnemonic, constants, and a
\* constant whose digit is the superscript two.
PipelineLines ==
    {<<".">> \o Name_text,
     <<".">> \o Name_data,
     <<"a", ":">>,
     Mnemonic_nop,
     <<"i", "n", "c">>,
     OperandLine(Mnemonic_mov, <<"e", "a", "x">>, <<"0", "0", "F", "F">>),
     OperandLine(Mnemonic_add, <<"A", "X">>, <<"1", "0", "0", "0", "0">>),
     <<".">> \o Name_word \o <<" ", "1">>,
     <<".">> \o Name_word \o <<" ", "U+00B2">>,
     <<"a", ":", " ">> \o Mnemonic_nop \o <<";", "c">>}

\* Lines '<mnemonic> %<register>, #$<hex digits>': mnemonics and register names,
\* implemented, valid and not, and every string of up to MaxOperandDigits hex
\* digits over three digits.
OperandMnemonics ==
    {Mnemonic_mov, Mnemonic_add, <<"i", "n", "c">>, <<"_">>, <<"a", "1">>}

OperandRegisters == {<<"e", "a", "x">>, <<"A", "X">>, <<"r", "2">>, <<"2", "x">>}

OperandDigits == {"0", "F", "a"}

\* A text section with one label whose body is the line 'line'.
LabelledLine(line) == JoinLines(<<<<".">> \o Name_text, <<"a", ":">>, line>>)

OperandTexts ==
    {LabelledLine(OperandLine(m, r, h)) :
        m \in OperandMnemonics, r \in OperandRegisters,
        h \in NonEmptyStr(OperandDigits, MaxOperandDigits)}

\* A text section with one label whose body is the same line twice.
RepeatedLineTexts ==
    {JoinLines(<<<<".">> \o Name_text, <<"a", ":">>, l, l>>) :
        l \in {Mnemonic_nop,
               OperandLine(Mnemonic_mov, <<"e", "a", "x">>, <<"0", "0", "F", "F">>)}}

\* Source files whose last line has a lexical error: a run of blank lines, then
\* the faulty line alone or after one or two lines of code, so that the error is
\* on the lines 1 to 3 and on lines around 10, 100 and MaxBlankLines.
FaultyLines == {<<"%">>, <<"a", " ", "$">>, <<" ", " ", ".">>, <<"a", " ", "%", "_", "!">>}

BlankRuns == {0, 1, 7, 97, MaxBlankLines - 1, MaxBlankLines}

ReportTails ==
    UNION {{<<l>>, <<<<"a">>, l>>, <<<<"a">>, <<"_", " ", "a">>, l>>} : l \in FaultyLines}

\* Tokens of one argument: the structural tokens, an identifier, a valid and an
\* invalid register name, numbers in and out of the 16-bit range, and a label.
ArgumentTokenShapes ==
    {ImmediateShape,
     StructuralShape("(", "OpenParenthesis"), StructuralShape(")", "CloseParenthesis"),
     StructuralShape("[", "OpenBracket"), StructuralShape("]", "CloseBracket"),
     IdentifierShape(<<"a">>), LabelShape(<<"a">>),
     RegisterShape(<<"E", "a", "X">>), RegisterShape(<<"z", "z">>),
     DecimalShape(<<"1">>), DecimalShape(<<"6", "5", "5", "3", "6">>),
     HexShape(<<"F", "F", "F", "F">>)}

\* Tokens of the run of a data label: the two constant directives and an unknown
\* one, a string, numbers in and out of the 16-bit range, '#' and an identifier.
ConstantTokenShapes ==
    {DirectiveShape(Name_ascii), DirectiveShape(Name_word),
     DirectiveShape(<<"b", "y", "t", "e">>),
     AsciiStringShape(<<"h", "i">>),
     DecimalShape(<<"1">>), HexShape(<<"F", "F", "F", "F">>),
     DecimalShape(<<"6", "5", "5", "3", "6">>),
     ImmediateShape, IdentifierShape(<<"a">>)}

\* A data section of one label whose run is the tokens of one line.
DataPrograms ==
    {<<<<DirectiveShape(Name_data)>>, <<LabelShape(<<"a">>)>>, run>> :
        run \in NonEmptyStr(ConstantTokenShapes, MaxRunTokens)}

\* Lines of a subroutine: instructions without and with operands, a line that
\* starts with a register, a mnemonic with an operand too many, and a mnemonic
\* that is not implemented.
SubroutineLineShapes ==
    {<<InstructionShape(Mnemonic_nop)>>,
     <<InstructionShape(Mnemonic_mov), RegisterShape(<<"a", "x">>), CommaShape,
       RegisterShape(<<"b", "x">>)>>,
     <<RegisterShape(<<"a", "x">>), CommaShape>>,
     <<InstructionShape(Mnemonic_nop), IdentifierShape(<<"a">>)>>,
     <<InstructionShape(<<"i", "n", "c">>), RegisterShape(<<"a", "x">>)>>}

\* A text section of one label of up to MaxSubroutineLines lines; the label is
\* on a line of its own or on the first line of its run.
TextPrograms ==
    UNION {{<<<<DirectiveShape(Name_text)>>, <<LabelShape(<<"a">>)>>>> \o ls,
            <<<<DirectiveShape(Name_text)>>, <<LabelShape(<<"a">>)>> \o Head(ls)>>
                \o Tail(ls)} :
           ls \in NonEmptyStr(SubroutineLineShapes, MaxSubroutineLines)}

\* Register tokens: every name of up to MaxRegisterNameLen characters over the
\* letters of the register names in both cases, '_' and a digit, that the lexer
\* emits as a Register token (a name of digits only is no Register token).
RegisterNameAlphabet ==
    {"a", "b", "c", "d", "e", "x", "A", "B", "C", "D", "E", "X", "_", "1"}

RegisterTokenShapes ==
    {<<RegisterShape(name)>> :
        name \in {n \in NonEmptyStr(RegisterNameAlphabet, MaxRegisterNameLen) :
                     ~is_numeric(n)}}

\* Lines that start with '%': every text of up to MaxPercentLen characters over
\* binary and other digits, name characters, the delimiters space and comma,
\* '%' and a character that no token holds.
PercentAlphabet == {"0", "1", "2", "a", "_", " ", ",", "%", "!"}

PercentLines == {<<"%">> \o text : text \in Str(PercentAlphabet, MaxPercentLen)}

\* Lines whose tokens carry a payload: letters and digits inside and outside
\* ASCII, digits that are binary, decimal only and hex only, the three sigils,
\* the label colon and two delimiters.
PayloadAlphabet ==
    {"a", "F", "_", "1", "2", "U+00B2", "U+00E9", ".", ":", "%", "$", " ", ",", "g"}

PayloadLines == Str(PayloadAlphabet, MaxPayloadLineLen)

-----------------------------------------------------------------------------
(* Specifications.                                                         *)

\* The lexer on single lines over LexAlphabet.
LexInit ==
    /\ LexStart(Str(LexAlphabet, MaxLineLen))
    /\ NumIdle /\ InstrIdle /\ ArgIdle /\ ParseIdle /\ AsmIdle /\ FirstRun

SpecLex == LexInit /\ [][LexNext]_vars

\* The lexer on source texts over NameAlphabet.
NameInit ==
    /\ LexStart(Str(NameAlphabet, MaxTextLen))
    /\ NumIdle /\ InstrIdle /\ ArgIdle /\ ParseIdle /\ AsmIdle /\ FirstRun

SpecLexNames == NameInit /\ [][LexNext]_vars

\* The conversions of a number token.
NumInit == NumStart(NumberKinds) /\ LexIdle /\ InstrIdle /\ ArgIdle /\ ParseIdle /\ AsmIdle /\ FirstRun

SpecNum == NumInit /\ [][NumNext]_vars

\* Instruction::parse on parsed arguments.
InstrInit ==
    /\ InstrStart(Mnemonics, Str(ArgumentValues, MaxArgs))
    /\ LexIdle /\ NumIdle /\ ArgIdle /\ ParseIdle /\ AsmIdle /\ FirstRun

SpecInstr == InstrInit /\ [][InstructionParse]_vars

\* The argument tokens of an instruction line.
ArgInit ==
    /\ ArgStart(Str(ArgumentShapes, MaxArgTokens))
    /\ LexIdle /\ NumIdle /\ InstrIdle /\ ParseIdle /\ AsmIdle /\ FirstRun

SpecArgs == ArgInit /\ [][SplitArguments]_vars

\* InstructionArgumentType::parse on one argument's tokens.
ArgumentInit ==
    /\ ArgumentStart(NonEmptyStr(ArgumentTokenShapes, MaxArgumentLen))
    /\ LexIdle /\ NumIdle /\ InstrIdle /\ ParseIdle /\ AsmIdle /\ FirstRun

SpecArgument == ArgumentInit /\ [][ParseArgument]_vars

\* build_program on the tokens of a program.
ParseInit ==
    /\ ParseStart(Str(ProgramLineShapes, MaxProgLines))
    /\ LexIdle /\ NumIdle /\ InstrIdle /\ ArgIdle /\ AsmIdle /\ FirstRun

SpecParse == ParseInit /\ [][ParseNext]_vars

\* build_program on a data section of one label.
DataInit == ParseStart(DataPrograms) /\ LexIdle /\ NumIdle /\ InstrIdle /\ ArgIdle /\ AsmIdle /\ FirstRun

SpecData == DataInit /\ [][DataNext]_vars

\* The lexer on a source text of up to MaxPipelineLines lines, or on a text
\* section whose label holds an operand line, then the parser on the tokens.
PipelineInit ==
    /\ LexStart({JoinLines(ls) : ls \in Str(PipelineLines, MaxPipelineLines)}
                \cup OperandTexts)
    /\ NumIdle /\ InstrIdle /\ ArgIdle /\ ParseIdle /\ AsmIdle /\ FirstRun

SpecPipeline == PipelineInit /\ [][PipelineNext]_vars

\* assemble_file on a source file of up to MaxPipelineLines lines.
AssembleInit ==
    /\ AssembleStart({JoinLines(ls) : ls \in Str(PipelineLines, MaxPipelineLines)})
    /\ LexIdle /\ NumIdle /\ InstrIdle /\ ArgIdle /\ ParseIdle /\ FirstRun

SpecAssemble == AssembleInit /\ [][AssembleNext]_vars

\* The lexer and the parser run twice on the same source text.
TwoRunsInit ==
    /\ LexStart({JoinLines(ls) : ls \in Str(PipelineLines, MaxPipelineLines)}
                \cup RepeatedLineTexts)
    /\ NumIdle /\ InstrIdle /\ ArgIdle /\ ParseIdle /\ AsmIdle /\ FirstRun

SpecTwoRuns == TwoRunsInit /\ [][TwoRunsNext]_vars

\* The conversions of every number token the lexer emits: the tokens of SpecNum,
\* and the Decimal tokens whose first character is numeric without being one of
\* 0..9 (the decimal arm checks only the characters after the first).
LexedNumberInit ==
    /\ \/ NumStart(NumberKinds)
       \/ /\ \E first_char \in UnicodeNumerics : \E value \in Str(DecimalDigits, MaxAffix) :
                num_token = NumberToken("Decimal", <<first_char>> \o value)
          /\ operand_result = NoError
          /\ word_result = NoError
          /\ num_pc = "token"
    /\ LexIdle /\ InstrIdle /\ ArgIdle /\ ParseIdle /\ AsmIdle /\ FirstRun

SpecLexedNumbers == LexedNumberInit /\ [][NumNext]_vars

\* assemble_file on a source file whose last line has a lexical error, from the
\* call of tokenize_lines on: the file is read and split into its lines.
ReportInit ==
    /\ \E k \in BlankRuns : \E tail \in ReportTails :
          /\ content = Repeat("\n", k) \o JoinLines(tail)
          /\ lines = Repeat(<<>>, k) \o tail
    /\ asm_pc = "tokenize"
    /\ printed = <<>>
    /\ line_number = 0
    /\ chars = <<>>
    /\ col_number = 0
    /\ found_instruction = FALSE
    /\ found_directive = FALSE
    /\ tokens = <<>>
    /\ lex_pc = "line"
    /\ lex_error = NoError
    /\ NumIdle /\ InstrIdle /\ ArgIdle /\ ParseIdle /\ FirstRun

SpecReport == ReportInit /\ [][ReportNext]_vars

\* build_program on a text section of one label.
TextInit ==
    /\ ParseStart(TextPrograms)
    /\ LexIdle /\ NumIdle /\ InstrIdle /\ ArgIdle /\ AsmIdle /\ FirstRun

SpecText == TextInit /\ [][TextNext]_vars

\* InstructionArgumentType::parse on one Register token.
RegisterInit ==
    /\ ArgumentStart(RegisterTokenShapes)
    /\ LexIdle /\ NumIdle /\ InstrIdle /\ ParseIdle /\ AsmIdle /\ FirstRun

SpecRegister == RegisterInit /\ [][ParseArgument]_vars

\* The lexer on single lines that start with '%'.
PercentInit ==
    /\ LexStart(PercentLines)
    /\ NumIdle /\ InstrIdle /\ ArgIdle /\ ParseIdle /\ AsmIdle /\ FirstRun

SpecPercent == PercentInit /\ [][LexNext]_vars

\* The lexer on single lines over PayloadAlphabet.
PayloadInit ==
    /\ \E line \in PayloadLines : lines = <<line>>
    /\ line_number = 0
    /\ chars = <<>>
    /\ col_number = 0
    /\ found_instruction = FALSE
    /\ found_directive = FALSE
    /\ tokens = <<>>
    /\ lex_pc = "line"
    /\ lex_error = NoError
    /\ NumIdle /\ InstrIdle /\ ArgIdle /\ ParseIdle /\ AsmIdle /\ FirstRun

SpecPayload == PayloadInit /\ [][LexNext]_vars

\* The default specification: the parser.
Spec == SpecParse

-----------------------------------------------------------------------------
(* Instruction overloads (C1).                                             *)

\* The legal (mnemonic, argument variants) shapes and the variant each yields.
OverloadRow(mnemonic, shape, variant) ==
    [mnemonic |-> mnemonic, shape |-> shape, variant |-> variant]

OverloadTable ==
    {OverloadRow(Mnemonic_nop, <<>>, "nop"),
     OverloadRow(Mnemonic_mov, <<"MemoryAddress", "Register">>, "mov_RegisterToMemory"),
     OverloadRow(Mnemonic_mov, <<"Register", "MemoryAddress">>, "mov_MemoryToRegister"),
     OverloadRow(Mnemonic_mov, <<"Register", "Immediate">>, "mov_ImmediateToRegister"),
     OverloadRow(Mnemonic_mov, <<"Register", "Register">>, "mov_RegisterToRegister"),
     OverloadRow(Mnemonic_mov, <<"MemoryAddress", "Immediate">>, "mov_ImmediateToMemory16"),
     OverloadRow(Mnemonic_add, <<"Register">>, "add_RegisterToAccumulator"),
     OverloadRow(Mnemonic_add, <<"Immediate">>, "add_ImmediateToAccumulator"),
     OverloadRow(Mnemonic_add, <<"Register", "Register">>, "add_RegisterToRegister"),
     OverloadRow(Mnemonic_add, <<"Register", "Immediate">>, "add_ImmediateToRegister")}

\* The operand an argument becomes: its register, or its 16-bit number.
OperandOf(arg) == IF arg.variant = "Register" THEN Reg(arg.reg) ELSE U16(arg.num)

RowsFor(mnemonic, arguments) ==
    {row \in OverloadTable :
        /\ row.mnemonic = mnemonic
        /\ row.shape = [i \in DOMAIN arguments |-> arguments[i].variant]}

-----------------------------------------------------------------------------
(* Classification of bare identifiers (C2).                                *)

\* A bare identifier: the raw text starts with a letter or '_' and does not end
\* in ':'.
IsBareIdentifier(tok) ==
    IsIdentifierStart(Head(tok.value)) /\ Last(tok.value) /= ":"

\* The tokens emitted before tokens[i] on the line of tokens[i].
EarlierOnLine(i) ==
    {j \in 1..(i - 1) : tokens[j].line_number = tokens[i].line_number}

\* C2 as stated: on every line the first bare identifier is an Instruction token
\* and every further bare identifier of the line is an Identifier token.
C2_FirstBareIdentifierIsInstruction ==
    \A i \in DOMAIN tokens :
        IsBareIdentifier(tokens[i]) =>
            tokens[i].token_type =
                IF \A j \in EarlierOnLine(i) : ~IsBareIdentifier(tokens[j])
                THEN "Instruction" ELSE "Identifier"

\* C2 amended: the first bare identifier of a line is an Instruction token when
\* no Directive token precedes it on the line and an Identifier token when one
\* does; every further bare identifier of the line is an Identifier token.
C2_FirstBareIdentifierOffDirective ==
    \A i \in DOMAIN tokens :
        IsBareIdentifier(tokens[i]) =>
            tokens[i].token_type =
                IF \A j \in EarlierOnLine(i) :
                       /\ ~IsBareIdentifier(tokens[j])
                       /\ tokens[j].token_type /= "Directive"
                THEN "Instruction" ELSE "Identifier"

\* A returned token list in which the first bare identifier of a line follows a
\* directive and is an Identifier.
C2_Witness ==
    /\ lex_pc = "done"
    /\ Len(tokens) = 2
    /\ tokens[1].line_number = tokens[2].line_number
    /\ tokens[1].token_type = "Directive"
    /\ tokens[2].token_type = "Identifier"
    /\ IsBareIdentifier(tokens[2])

-----------------------------------------------------------------------------
(* Number literals (C3).                                                   *)

\* The value a digit denotes.
DigitValue ==
    ("0" :> 0) @@ ("1" :> 1) @@ ("2" :> 2) @@ ("3" :> 3) @@ ("4" :> 4) @@ ("5" :> 5)
    @@ ("6" :> 6) @@ ("7" :> 7) @@ ("8" :> 8) @@ ("9" :> 9)
    @@ ("a" :> 10) @@ ("b" :> 11) @@ ("c" :> 12) @@ ("d" :> 13) @@ ("e" :> 14)
    @@ ("f" :> 15)
    @@ ("A" :> 10) @@ ("B" :> 11) @@ ("C" :> 12) @@ ("D" :> 13) @@ ("E" :> 14)
    @@ ("F" :> 15)

\* The value a digit string denotes in a radix, as an unbounded integer.
LiteralValue(digits, radix) ==
    LET V[i \in 0..Len(digits)] ==
            IF i = 0 THEN 0 ELSE V[i - 1] * radix + DigitValue[digits[i]]
    IN V[Len(digits)]

\* The radix of each kind of literal and the overflow error that names its limit.
LiteralRadix == ("Decimal" :> 10) @@ ("Binary" :> 2) @@ ("Hex" :> 16)

LiteralOverflow ==
    ("Decimal" :>
        "Decimal literal is larger than expected 16-bit word! (Max is 65535)")
    @@ ("Binary" :>
        "Binary literal is larger than expected 16-bit word! (Max is %1111111111111111)")
    @@ ("Hex" :>
        "Hexadecimal literal is larger than expected 16-bit word! (Max is $FFFF)")

\* C3: a Decimal, Binary or Hex token whose digits denote v parses to exactly v
\* when v <= 65535 and raises the overflow error of its radix, and no value,
\* when v > 65535; as an instruction operand and as a .word constant alike.
C3_LiteralValueOrOverflow ==
    LET kind == num_token.token_type
        v == LiteralValue(num_token.payload, LiteralRadix[kind])
        overflow == Err(LiteralOverflow[kind], num_token.line_number,
                        num_token.column_start, num_token.column_end)
    IN /\ operand_result /= NoError =>
              IF v <= 65535
              THEN /\ operand_result.res = "ok"
                   /\ operand_result.value = ArgNumber("MemoryAddress", v)
              ELSE operand_result = overflow
       /\ word_result /= NoError =>
              IF v <= 65535
              THEN /\ word_result.res = "ok"
                   /\ word_result.value = <<Word(v)>>
              ELSE word_result = overflow

\* A hex literal with a leading zero that denotes 65535 was parsed both ways.
C3_Witness ==
    /\ num_token.token_type = "Hex"
    /\ num_token.payload = <<"0", "F", "f", "F", "f">>
    /\ operand_result = Ok(ArgNumber("MemoryAddress", 65535))
    /\ word_result = Ok(<<Word(65535)>>)

-----------------------------------------------------------------------------
(* String literals, spans and delimiters (C4 to C7).                       *)

Quote == "\""

Backslash == "\\"

\* C4: when a '"' starts a token and no later '"' occurs on the line, a lexical
\* error is reported and no AsciiString token is emitted; an emitted AsciiString
\* token carries as payload exactly the text between its two quotes.
C4_UnterminatedStringIsAnError ==
    [][/\ (lex_pc = "token" /\ Head(chars) = Quote
              /\ \A i \in 2..Len(chars) : chars[i] /= Quote) =>
           (lex_pc' = "error" /\ tokens' = tokens)
       /\ \A i \in DOMAIN tokens' :
              tokens'[i].token_type = "AsciiString" =>
                  tokens'[i].value = <<Quote>> \o tokens'[i].payload \o <<Quote>>]_vars

\* body[i] is escaped: an odd number of backslashes stands right before it.
RECURSIVE Escaped(_, _)
Escaped(body, i) == i > 1 /\ body[i - 1] = Backslash /\ ~Escaped(body, i - 1)

\* The positions of the unescaped quotes of body.
ClosingQuotes(body) == {i \in DOMAIN body : body[i] = Quote /\ ~Escaped(body, i)}

Min(S) == CHOOSE x \in S : \A y \in S : x <= y

\* C5: a string literal ends at the next unescaped '"': a '"' behind a backslash
\* escape does not end the AsciiString token, which extends to the first
\* unescaped closing quote.
C5_StringEndsAtUnescapedQuote ==
    [][(lex_pc = "token" /\ Head(chars) = Quote /\ ClosingQuotes(Tail(chars)) /= {}) =>
          LET close == Min(ClosingQuotes(Tail(chars)))
          IN /\ Len(tokens') = Len(tokens) + 1
             /\ Last(tokens').token_type = "AsciiString"
             /\ Last(tokens').value = SubSeq(chars, 1, close + 1)
             /\ chars' = Drop(chars, close + 1)]_vars

\* C6: the span of every token is its exact source extent: column_end is
\* exclusive, the span is as long as the raw text, the raw text is the text of
\* its line at the columns of the span, and the spans of successive tokens of a
\* line do not overlap.
C6_SpansAreExact ==
    /\ \A i \in DOMAIN tokens :
          LET tok == tokens[i]
          IN /\ tok.column_end - tok.column_start = Len(tok.value)
             /\ tok.column_end <= Len(lines[tok.line_number + 1])
             /\ tok.value = SubSeq(lines[tok.line_number + 1],
                                   tok.column_start + 1, tok.column_end)
    /\ \A i \in 1..(Len(tokens) - 1) :
          tokens[i].line_number = tokens[i + 1].line_number =>
              tokens[i].column_end <= tokens[i + 1].column_start

\* The characters that end a directive, a name, a register and a hex or decimal
\* literal.
ScanDelimiters == {" ", ",", ";", "(", ")", "[", "]"}

\* A first character and a following text that make a well-formed directive,
\* instruction or identifier, register, hex literal or decimal literal.
WellFormedText(first_char, text) ==
    CASE first_char = "." -> text /= <<>> /\ is_alphanumeric(text)
      [] first_char \in AsciiLetters \cup {"_"} -> is_alphanumeric(text)
      [] first_char = "%" -> text /= <<>> /\ ~is_numeric(text) /\ is_alphanumeric(text)
      [] first_char = "$" -> text /= <<>> /\ is_hex(text)
      [] first_char \in AsciiDigits -> is_numeric(text)
      [] OTHER -> FALSE

\* C7: the scan of a directive, an instruction or identifier, a register, a hex
\* literal and a decimal literal stops at the first of the characters
\* space , ; ( ) [ ]: the token is the text before that character, and the
\* character is left for the next token.
C7_ScanStopsAtEveryDelimiter ==
    [][LET text == SubSeq(Tail(chars), 1, RunLength(ScanDelimiters, Tail(chars)))
       IN (lex_pc = "token" /\ WellFormedText(Head(chars), text)) =>
              /\ Len(tokens') = Len(tokens) + 1
              /\ Last(tokens').value = <<Head(chars)>> \o text
              /\ chars' = Drop(chars, 1 + Len(text))]_vars

-----------------------------------------------------------------------------
(* Sections and labels (C8, C9).                                           *)

\* The positions in source_tokens of the section directives that repeat an
\* earlier section directive.
RepeatedSections ==
    {i \in DOMAIN source_tokens :
        /\ IsSectionDirective(source_tokens[i])
        /\ \E j \in 1..(i - 1) :
              /\ source_tokens[j].token_type = "Directive"
              /\ source_tokens[j].payload = source_tokens[i].payload}

DuplicateSection(name) ==
    IF name = Name_data THEN "Duplicate section '.data'"
    ELSE "Duplicate section '.text'"

\* C8 as stated: a token sequence of sections with two data directives, or two
\* text directives, ends in the duplicate-section error whatever the sections
\* hold.
C8_DuplicateSectionWhateverTheContents ==
    (/\ RepeatedSections /= {}
     /\ IsSectionDirective(source_tokens[1])
     /\ parse_pc \in {"done", "error", "panic"}) =>
        /\ parse_pc = "error"
        /\ parse_error.message \in {DuplicateSection(Name_data),
                                    DuplicateSection(Name_text)}

\* C8 amended: a token sequence with two data directives, or two text
\* directives, never yields a Program, and when build_program comes to the first
\* directive that repeats a section it reports the duplicate-section error,
\* located at that directive.
C8_DuplicateSectionWhenReached ==
    [][RepeatedSections /= {} =>
          LET k == Min(RepeatedSections)
              repeated == source_tokens[k]
          IN /\ parse_pc' /= "done"
             /\ (parse_pc = "top" /\ Len(queue) = Len(source_tokens) - k + 1) =>
                    /\ parse_pc' = "error"
                    /\ parse_error' =
                           Err(DuplicateSection(repeated.payload), repeated.line_number,
                               repeated.column_start, repeated.column_end)]_vars

\* A data section with a label in it was parsed and stored, and the second data
\* directive was rejected as a duplicate.
C8_Witness ==
    /\ parse_pc = "error"
    /\ parse_error.message = DuplicateSection(Name_data)
    /\ ast.data.some
    /\ ast.data.labels /= <<>>

\* C9: in the data and in the text section, a Label token directly followed by
\* another Label token, by a data or text directive, or by the end of the
\* tokens is rejected with the error "Label cannot be empty", located at the
\* label token.
C9_EmptyLabelIsRejected ==
    [][(/\ parse_pc \in {"data", "text"}
        /\ queue /= <<>>
        /\ Head(queue).token_type = "Label"
        /\ \/ Len(queue) = 1
           \/ Len(queue) > 1 /\ queue[2].token_type = "Label"
           \/ Len(queue) > 1 /\ queue[2].token_type = "Directive"
                             /\ queue[2].payload \in {Name_data, Name_text}) =>
          /\ parse_pc' = "error"
          /\ parse_error' = Err("Label cannot be empty!", Head(queue).line_number,
                                Head(queue).column_start, Head(queue).column_end)]_vars

\* In a text section, a label directly followed by another label was rejected
\* as empty.
C9_Witness ==
    /\ parse_pc = "error"
    /\ parse_error.message = "Label cannot be empty!"
    /\ source_tokens[1].payload = Name_text
    /\ \E i \in 1..(Len(source_tokens) - 1) :
          /\ source_tokens[i].token_type = "Label"
          /\ source_tokens[i + 1].token_type = "Label"
          /\ source_tokens[i].line_number = parse_error.line_number
          /\ source_tokens[i].column_start = parse_error.col_start

-----------------------------------------------------------------------------
(* Argument separators (C10).                                              *)

\* The positions of the commas among the argument tokens, and those of the
\* commas that open the arguments, follow a comma or close the line.
CommaPositions ==
    {i \in DOMAIN line_arguments : line_arguments[i].token_type = "Comma"}

MisplacedCommas ==
    {i \in CommaPositions :
        i = 1 \/ i = Len(line_arguments) \/ (i - 1) \in CommaPositions}

\* The position of the n-th comma; 0 before the first comma and one past the
\* last token after the last comma.
CommaAt(n) ==
    IF n = 0 THEN 0
    ELSE IF n > Cardinality(CommaPositions) THEN Len(line_arguments) + 1
    ELSE CHOOSE i \in CommaPositions :
             Cardinality({j \in CommaPositions : j < i}) = n - 1

\* C10: a comma that is the first argument token, that follows a comma or that
\* is the last token of the line is rejected with the error "Unexpected argument
\* separator" and the line yields no instruction; otherwise
\* split_tokens_by_commas returns the maximal comma-free runs of the tokens in
\* order, each non-empty, one more than there are commas (none for no tokens).
C10_SeparatorsSplitOrAreRejected ==
    arg_pc = "done" =>
        IF MisplacedCommas /= {}
        THEN LET comma == line_arguments[Min(MisplacedCommas)]
                 rejected == Err("Unexpected argument separator ','!",
                                 comma.line_number, comma.column_start,
                                 comma.column_end)
             IN split_result = rejected /\ line_result = rejected
        ELSE /\ split_result.res = "ok"
             /\ Len(split_result.value) =
                    IF line_arguments = <<>> THEN 0
                    ELSE Cardinality(CommaPositions) + 1
             /\ \A n \in DOMAIN split_result.value :
                    /\ split_result.value[n] /= <<>>
                    /\ split_result.value[n] =
                           SubSeq(line_arguments, CommaAt(n - 1) + 1, CommaAt(n) - 1)

\* A line of four argument tokens with a doubled comma was rejected at its
\* second comma, by split_tokens_by_commas and as a line.
C10_Witness ==
    /\ arg_pc = "done"
    /\ Len(line_arguments) = 4
    /\ CommaPositions = {2, 3}
    /\ split_result.res = "error"
    /\ split_result.col_start = line_arguments[3].column_start
    /\ line_result = split_result

-----------------------------------------------------------------------------
(* Mnemonics that are not implemented (C11).                               *)

ImplementedMnemonics == {Mnemonic_nop, Mnemonic_mov, Mnemonic_add}

ArityMessages ==
    {ArityMessage(expected, got) : expected \in {"0", "2", "1 or 2"}, got \in 0..(MaxArgs + 1)}

\* C11: a mnemonic other than nop, mov and add ends Instruction::parse in the
\* "not implemented" condition whatever the parsed arguments are; that condition
\* is neither the arity error nor the "no valid overload" error, and nop, mov
\* and add never end in it.
C11_UnimplementedMnemonicIsDistinct ==
    instr_pc = "done" =>
        IF instruction_mnemonic \in ImplementedMnemonics
        THEN instruction /= Panic("not implemented")
        ELSE /\ instruction = Panic("not implemented")
             /\ instruction.res /= "error"
             /\ instruction.message \notin ArityMessages \cup {NoOverload}

\* 'inc' with one register argument, a shape 'add' accepts, ended in the "not
\* implemented" condition.
C11_Witness ==
    /\ instr_pc = "done"
    /\ instruction_mnemonic = <<"i", "n", "c">>
    /\ instruction_arguments = <<ArgRegister("AX")>>
    /\ instruction = Panic("not implemented")

-----------------------------------------------------------------------------
(* The ways a run ends (C12).                                              *)

\* The run has stopped: the lexer or the parser ended the process, or
\* build_program returned.
RunStopped == lex_pc = "error" \/ parse_pc \in {"done", "error", "panic"}

IsDiagnostic(e) ==
    e.res = "error" /\ e.col_start <= e.col_end /\ e.line_number < Len(lines)

\* C12: a run of the lexer followed by the parser stops either with the Program
\* returned or with one diagnostic of the reporter (a message and a location in
\* the source), and in no other way.
C12_RunEndsInProgramOrDiagnostic ==
    RunStopped =>
        \/ parse_pc = "done" /\ lex_error = NoError /\ parse_error = NoError
        \/ lex_pc = "error" /\ parse_pc = "idle" /\ IsDiagnostic(lex_error)
        \/ parse_pc = "error" /\ lex_error = NoError /\ IsDiagnostic(parse_error)

-----------------------------------------------------------------------------
(* The line '<mnemonic> %<register>, #$<hex digits>' (C13).                *)

Slice(s, a, b) == IF a < 1 \/ a > b \/ b > Len(s) THEN <<>> ELSE SubSeq(s, a, b)

\* The parts of a line read as '<mnemonic> %<register>, #$<hex digits>': the
\* mnemonic ends at the first space, the register name at the first comma.
OperandLineParts(line) ==
    LET i == 1 + RunLength({" "}, line)
        j == 1 + RunLength({","}, line)
    IN [mnemonic |-> Slice(line, 1, i - 1),
        lead |-> Slice(line, i, i + 1),
        register |-> Slice(line, i + 2, j - 1),
        mid |-> Slice(line, j, j + 3),
        digits |-> Slice(line, j + 4, Len(line))]

\* The line has that form: a name, ' %', a name that is no number, ', #$', and
\* hex digits.
IsOperandLine(line) ==
    LET p == OperandLineParts(line)
    IN /\ p.mnemonic /= <<>>
       /\ p.mnemonic[1] \in AsciiLetters \cup {"_"}
       /\ is_alphanumeric(p.mnemonic)
       /\ p.lead = <<" ", "%">>
       /\ p.register /= <<>>
       /\ is_alphanumeric(p.register)
       /\ ~is_numeric(p.register)
       /\ p.mid = <<",", " ", "#", "$">>
       /\ p.digits /= <<>>
       /\ is_hex(p.digits)

\* The tokens emitted for line k, and whether the lexer is done with line k.
LineTokens(k) == SelectSeq(tokens, LAMBDA t : t.line_number = k)

LineLexed(k) == lex_pc = "done" \/ (lex_pc \in {"line", "token"} /\ line_number > k)

MovLine == OperandLine(Mnemonic_mov, <<"e", "a", "x">>, <<"0", "0", "F", "F">>)

\* C13: the lexer makes of every line '<mnemonic> %<register>, #$<hex digits>'
\* exactly the tokens Instruction(mnemonic), Register(register), Comma,
\* Immediate, Hex(digits), in that order, no payload holding '%', '$' or ',';
\* and the program of a text section with a label whose body is the line
\* 'mov %eax, #$00FF' parses to that label with the one instruction
\* mov_ImmediateToRegister(EAX, 255).
C13_OperandLineTokensAndInstruction ==
    /\ lex_pc = "error" => ~IsOperandLine(lines[line_number + 1])
    /\ \A k \in 0..(Len(lines) - 1) :
          (LineLexed(k) /\ IsOperandLine(lines[k + 1])) =>
              LET p == OperandLineParts(lines[k + 1])
                  t == LineTokens(k)
              IN /\ Len(t) = 5
                 /\ [i \in 1..5 |-> t[i].token_type] =
                        <<"Instruction", "Register", "Comma", "Immediate", "Hex">>
                 /\ [i \in 1..5 |-> t[i].payload] =
                        <<p.mnemonic, p.register, NoPayload, NoPayload, p.digits>>
                 /\ \A i \in 1..5 : Range(t[i].payload) \cap {"%", "$", ","} = {}
    /\ (RunStopped /\ lines = <<<<".">> \o Name_text, <<"a", ":">>, MovLine>>) =>
          /\ parse_pc = "done"
          /\ ast = [text |-> SomeSection(<<LabelOf(<<"a">>,
                                 <<Instr("mov_ImmediateToRegister",
                                         <<Reg("EAX"), U16(255)>>)>>)>>),
                    data |-> NoSection]

\* The program .text / a: / mov %eax, #$00FF was lexed and parsed: five tokens on
\* its last line and the instruction in the label.
C13_Witness ==
    /\ parse_pc = "done"
    /\ lines = <<<<".">> \o Name_text, <<"a", ":">>, MovLine>>
    /\ Len(LineTokens(2)) = 5
    /\ ast.text.labels[1].body = <<Instr("mov_ImmediateToRegister",
                                         <<Reg("EAX"), U16(255)>>)>>

-----------------------------------------------------------------------------
(* The shapes of an argument (C14).                                        *)

\* A token as the shapes see it: "Number" for a Binary, Decimal or Hex token whose
\* digits denote a 16-bit value, "Overflow" for one whose digits do not, else the
\* token's type.
ShapeKind(tok) ==
    IF tok.token_type \in NumberKinds
    THEN (IF LiteralValue(tok.payload, LiteralRadix[tok.token_type]) <= 65535
          THEN "Number" ELSE "Overflow")
    ELSE tok.token_type

ShapeKinds(toks) == [i \in DOMAIN toks |-> ShapeKind(toks[i])]

ArgumentShapeTable ==
    {<<"Number">>,
     <<"Immediate", "Number">>,
     <<"OpenParenthesis", "Number", "CloseParenthesis">>,
     <<"Identifier">>,
     <<"OpenBracket", "Identifier", "CloseBracket">>,
     <<"Register">>}

\* The register names, in lower case, and the register each names.
RegisterTable ==
    {<<<<"a", "x">>, "AX">>, <<<<"b", "x">>, "BX">>, <<<<"c", "x">>, "CX">>,
     <<<<"d", "x">>, "DX">>, <<<<"e", "x">>, "EX">>,
     <<<<"e", "a", "x">>, "EAX">>, <<<<"e", "b", "x">>, "EBX">>,
     <<<<"e", "c", "x">>, "ECX">>, <<<<"e", "d", "x">>, "EDX">>,
     <<<<"e", "e", "x">>, "EEX">>}

RegistersNamed(name) == {row[2] : row \in {r \in RegisterTable : r[1] = to_lowercase(name)}}

\* The argument a sequence of a recognized shape denotes.
ArgumentOfShape(toks) ==
    LET kinds == ShapeKinds(toks)
        number(tok) == LiteralValue(tok.payload, LiteralRadix[tok.token_type])
    IN CASE kinds = <<"Number">> -> ArgNumber("MemoryAddress", number(toks[1]))
         [] kinds = <<"Immediate", "Number">> -> ArgNumber("Immediate", number(toks[2]))
         [] kinds = <<"OpenParenthesis", "Number", "CloseParenthesis">> ->
                ArgNumber("MemoryAddressIndirect", number(toks[2]))
         [] kinds = <<"Identifier">> -> ArgLabel("LabelAddress", toks[1].payload)
         [] kinds = <<"OpenBracket", "Identifier", "CloseBracket">> ->
                ArgLabel("LabelValue", toks[2].payload)
         [] kinds = <<"Register">> ->
                ArgRegister(CHOOSE r \in RegistersNamed(toks[1].payload) : TRUE)

IsShapePrefix(kinds) ==
    \E shape \in ArgumentShapeTable :
        Len(kinds) <= Len(shape) /\ kinds = SubSeq(shape, 1, Len(kinds))

\* The positions at which the tokens leave every recognized shape.
Departures(toks) ==
    {i \in DOMAIN toks : ~IsShapePrefix(SubSeq(ShapeKinds(toks), 1, i))}

\* The offending token: the first token that fits no recognized shape; when every
\* token fits and a partner is missing, or the register name names no register,
\* the last token.
OffendingToken(toks) ==
    IF Departures(toks) /= {} THEN toks[Min(Departures(toks))] ELSE Last(toks)

IsArgument(toks) ==
    /\ ShapeKinds(toks) \in ArgumentShapeTable
    /\ ShapeKinds(toks) = <<"Register">> => RegistersNamed(toks[1].payload) /= {}

\* C14: InstructionArgumentType::parse returns, for the tokens of a recognized
\* shape, the argument of the shape's variant with the number's value, the
\* identifier's name or the register named, and for every other non-empty token
\* sequence reports an error located at the offending token.
C14_ArgumentShapes ==
    arg_pc = "done" =>
        IF IsArgument(line_arguments)
        THEN line_result = Ok(ArgumentOfShape(line_arguments))
        ELSE LET offending == OffendingToken(line_arguments)
             IN /\ line_result.res = "error"
                /\ line_result.line_number = offending.line_number
                /\ line_result.col_start = offending.column_start
                /\ line_result.col_end = offending.column_end

\* '(' number ')' followed by one more token was rejected at that token.
C14_Witness ==
    /\ arg_pc = "done"
    /\ ShapeKinds(line_arguments) =
           <<"OpenParenthesis", "Number", "CloseParenthesis", "Identifier">>
    /\ line_result.res = "error"
    /\ line_result.col_start = line_arguments[4].column_start

-----------------------------------------------------------------------------
(* Arity (C15).                                                            *)

\* The argument counts each implemented mnemonic takes, and how the arity error
\* words them.
ArityTable ==
    {[mnemonic |-> Mnemonic_nop, counts |-> {0}, expects |-> "0"],
     [mnemonic |-> Mnemonic_mov, counts |-> {2}, expects |-> "2"],
     [mnemonic |-> Mnemonic_add, counts |-> {1, 2}, expects |-> "1 or 2"]}

Numerals == <<"0", "1", "2", "3", "4", "5", "6", "7", "8", "9">>

\* C15: for nop, mov and add called with a number of arguments the mnemonic does
\* not take, Instruction::parse reports "expects N arguments, but got M" with M
\* the number of arguments, whatever the variants of the arguments are, and not
\* the "no valid overload" error.
C15_ArityBeforeOverload ==
    instr_pc = "done" =>
        \A row \in ArityTable :
            (instruction_mnemonic = row.mnemonic
                /\ Len(instruction_arguments) \notin row.counts) =>
                /\ instruction.res = "error"
                /\ instruction.message =
                       "instruction expects " \o row.expects \o " arguments, but got "
                       \o Numerals[Len(instruction_arguments) + 1]
                /\ instruction.message /= NoOverload

\* mov with three arguments of which the first two match an overload was
\* rejected for its arity.
C15_Witness ==
    /\ instr_pc = "done"
    /\ instruction_mnemonic = Mnemonic_mov
    /\ Len(instruction_arguments) = 3
    /\ instruction_arguments[1].variant = "Register"
    /\ instruction_arguments[2].variant = "Register"
    /\ instruction.res = "error"
    /\ instruction.message = "instruction expects 2 arguments, but got 3"

-----------------------------------------------------------------------------
(* Labels are never empty (C16).                                           *)

\* The labels of a section of the Program; none when the section is absent.
SectionLabels(slot) == IF slot.some THEN Range(slot.labels) ELSE {}

\* C16: in the Program build_program returns, every label of the data section
\* holds at least one constant and every label of the text section at least one
\* instruction.
C16_LabelsAreNeverEmpty ==
    parse_pc = "done" =>
        /\ \A label \in SectionLabels(ast.data) : Len(label.body) >= 1
        /\ \A label \in SectionLabels(ast.text) : Len(label.body) >= 1

\* A Program was returned with a data section and a text section of one label
\* each.
C16_Witness ==
    /\ parse_pc = "done"
    /\ ast.data.some /\ Len(ast.data.labels) = 1
    /\ ast.text.some /\ Len(ast.text.labels) = 1
    /\ ast.data.labels[1].body = <<Word(1)>>
    /\ ast.text.labels[1].body = <<Instr("nop", <<>>)>>

-----------------------------------------------------------------------------
(* The (directive, value) pairs of a data label (C17).                     *)

\* The run of the label: the tokens after the section directive and the label.
LabelRun == Drop(source_tokens, 2)

\* The positions at which the pairs of a run start.
PairStarts(run) == {p \in DOMAIN run : p % 2 = 1}

\* The pair at p is ('ascii', string) or ('word', number within 16 bits).
IsConstantPair(run, p) ==
    /\ p < Len(run)
    /\ run[p].token_type = "Directive"
    /\ \/ run[p].payload = Name_ascii /\ run[p + 1].token_type = "AsciiString"
       \/ run[p].payload = Name_word /\ ShapeKind(run[p + 1]) = "Number"

\* The constant the pair at p denotes.
ConstantOfPair(run, p) ==
    IF run[p].payload = Name_ascii THEN StringLiteral(run[p + 1].payload)
    ELSE Word(LiteralValue(run[p + 1].payload, LiteralRadix[run[p + 1].token_type]))

BadPairs(run) == {p \in PairStarts(run) : ~IsConstantPair(run, p)}

\* The error of the pair at p that is no constant: the token it is located at and,
\* for the four errors with a fixed text, the message ("" for the others).
PairError(run, p) ==
    CASE p = Len(run) ->
            [token |-> run[p], message |-> "Expected at least 2 tokens in constant."]
      [] p < Len(run) /\ run[p].token_type /= "Directive" ->
            [token |-> run[p], message |-> "First token in a constant must be a directive!"]
      [] p < Len(run) /\ run[p].token_type = "Directive"
         /\ run[p].payload \notin {Name_ascii, Name_word} ->
            [token |-> run[p], message |-> "Unknown constant directive!"]
      [] p < Len(run) /\ run[p].token_type = "Directive"
         /\ run[p].payload = Name_word /\ run[p + 1].token_type = "Immediate" ->
            [token |-> run[p + 1],
             message |-> "The .word directive does not require an immediate '#' marker!"]
      [] OTHER -> [token |-> run[p + 1], message |-> ""]

\* C17: the run of a data label is read as (directive, value) pairs in order;
\* when every pair is ('ascii', string) or ('word', number) the label holds one
\* constant per pair, in source order, half as many as the run has tokens;
\* otherwise the first pair that is none is reported: a single token left over
\* as "Expected at least 2 tokens in constant", a first token that is no
\* directive, an unknown directive, and '#' after 'word' each with its own
\* error, at the token at fault.
C17_ConstantsArePairs ==
    parse_pc \in {"done", "error", "panic"} =>
        IF BadPairs(LabelRun) = {}
        THEN /\ parse_pc = "done"
             /\ Len(ast.data.labels) = 1
             /\ Len(ast.data.labels[1].body) * 2 = Len(LabelRun)
             /\ ast.data.labels[1].body =
                    [i \in 1..(Len(LabelRun) \div 2) |->
                        ConstantOfPair(LabelRun, 2 * i - 1)]
        ELSE LET e == PairError(LabelRun, Min(BadPairs(LabelRun)))
             IN /\ parse_pc = "error"
                /\ parse_error.line_number = e.token.line_number
                /\ parse_error.col_start = e.token.column_start
                /\ parse_error.col_end = e.token.column_end
                /\ e.message /= "" => parse_error.message = e.message

\* A run of a string constant, a word constant and one token left over was
\* rejected at that token.
C17_Witness ==
    /\ parse_pc = "error"
    /\ Len(LabelRun) = 3
    /\ IsConstantPair(LabelRun, 1)
    /\ parse_error = ErrAt("Expected at least 2 tokens in constant.", LabelRun[3])

-----------------------------------------------------------------------------
(* The top level of build_program (C18).                                   *)

MustStartWithSection ==
    {"Unexpected token. Program should start with either .data or .text section directive!",
     "Expected program to start with either .data or .text section!"}

\* C18: at the top level build_program takes only section directives: a token
\* that is no Directive, or a Directive named neither data nor text, is reported
\* with the error that the program must start with a .data or .text section,
\* located at the token; a data directive enters the data-section parser and a
\* text directive the text-section parser, each filling its own section of the
\* Program (a directive that repeats a section being the duplicate-section
\* error); and no token at all yields a Program with both sections absent.
C18_TopLevelTakesSectionsOnly ==
    [][/\ (parse_pc = "top" /\ queue /= <<>>) =>
              LET token == Head(queue)
              IN IF ~IsSectionDirective(token)
                 THEN /\ parse_pc' = "error"
                      /\ parse_error'.message \in MustStartWithSection
                      /\ parse_error' = ErrAt(parse_error'.message, token)
                      /\ (token.token_type = "Directive") =
                             (parse_error'.message =
                                 "Expected program to start with either .data or .text section!")
                 ELSE LET section == IF token.payload = Name_data THEN "data" ELSE "text"
                          present == IF section = "data" THEN ast.data.some
                                     ELSE ast.text.some
                      IN IF present
                         THEN parse_error' = ErrAt(DuplicateSection(token.payload), token)
                         ELSE /\ parse_pc' = section
                              /\ queue' = Tail(queue)
                              /\ labels' = <<>>
                              /\ ast' = ast
       /\ (parse_pc = "data" /\ parse_pc' = "top") =>
              ast' = [ast EXCEPT !.data = SomeSection(labels)]
       /\ (parse_pc = "text" /\ parse_pc' = "top") =>
              ast' = [ast EXCEPT !.text = SomeSection(labels)]
       /\ (parse_pc' = "done" /\ source_tokens = <<>>) =>
              ast' = [text |-> NoSection, data |-> NoSection]]_vars

\* A program whose first token is the directive '.word' was rejected at that
\* token.
C18_Witness ==
    /\ parse_pc = "error"
    /\ source_tokens[1].token_type = "Directive"
    /\ source_tokens[1].payload = Name_word
    /\ parse_error =
           ErrAt("Expected program to start with either .data or .text section!",
                 source_tokens[1])

-----------------------------------------------------------------------------
(* The stages of assemble_file (C19).                                      *)

\* C19: assemble_file runs split-into-lines, the lexer, then the parser: when it
\* returns, the lexer has returned the tokens of the lines of the file and
\* build_program has been run on them, to a Program or to a parse error.
C19_LexedFileIsParsed ==
    asm_pc = "returned" =>
        /\ lines = SplitLines(content, <<>>)
        /\ lex_pc = "done"
        /\ source_tokens = tokens
        /\ parse_pc \in {"done", "error"}

-----------------------------------------------------------------------------
(* Determinism (C20).                                                      *)

\* A token without the number of its line.
OffLine(tok) == [tok EXCEPT !.line_number = 0]

\* The tokens of line k, without the line number.
LineTokensOffLine(k) ==
    LET t == LineTokens(k) IN [i \in DOMAIN t |-> OffLine(t[i])]

-----------------------------------------------------------------------------
(* The two conversions of a number token (C30).                            *)

\* C30: for every Binary, Decimal or Hex token the .word conversion and
\* Token::parse_u16 give the same u16 value, or both report the overflow error
\* of the token's radix at the token's span.
C30_ConversionsGiveValueOrOverflow ==
    (operand_result # NoError /\ word_result # NoError) =>
        \/ /\ operand_result.res = "ok"
           /\ word_result.res = "ok"
           /\ word_result.value = <<Word(operand_result.value.num)>>
        \/ /\ operand_result = ErrAt(LiteralOverflow[num_token.token_type], num_token)
           /\ word_result = operand_result

-----------------------------------------------------------------------------
(* The classification of bare identifiers by the two flags (C25).          *)

\* The tokens emitted so far on line 'line' that are of one of 'kinds'.
OnLine(line, kinds) ==
    {j \in DOMAIN tokens :
        tokens[j].line_number = line /\ tokens[j].token_type \in kinds}

\* C25: a bare identifier is an Instruction token exactly when no Instruction and
\* no Directive token was emitted earlier on its line, and an Identifier token
\* otherwise; so a line has at most one Instruction token and none after a
\* Directive, a Label token changes nothing, and while a line is lexed each flag
\* is set exactly when the line has given a token of its kind so far, whatever
\* the lines before it gave.
C25_FlagsClassifyBareIdentifiers ==
    /\ \A i \in DOMAIN tokens :
          LET earlier == {j \in EarlierOnLine(i) :
                             tokens[j].token_type \in {"Instruction", "Directive"}}
          IN /\ IsBareIdentifier(tokens[i]) =>
                    tokens[i].token_type =
                        IF earlier = {} THEN "Instruction" ELSE "Identifier"
             /\ tokens[i].token_type \in {"Instruction", "Identifier"} =>
                    IsBareIdentifier(tokens[i])
             /\ tokens[i].token_type = "Instruction" => earlier = {}
    /\ \A line \in 0..Len(lines) : Cardinality(OnLine(line, {"Instruction"})) <= 1
    /\ lex_pc = "token" =>
          /\ found_instruction = (OnLine(line_number, {"Instruction"}) # {})
          /\ found_directive = (OnLine(line_number, {"Directive"}) # {})

\* A first line gave an Instruction token and then an Identifier token, and the
\* bare identifier of the second line is an Instruction token again.
C25_Witness ==
    /\ lex_pc = "done"
    /\ Len(tokens) = 3
    /\ tokens[1].token_type = "Instruction" /\ tokens[1].line_number = 0
    /\ tokens[2].token_type = "Identifier" /\ tokens[2].line_number = 0
    /\ tokens[3].token_type = "Instruction" /\ tokens[3].line_number = 1

-----------------------------------------------------------------------------
(* The diagnostic of the reporter (C21).                                   *)

\* The positions of the carets in the underline of the diagnostic.
Carets == {i \in DOMAIN printed.underline : printed.underline[i] = "^"}

\* The output column (from 1) of source column s in the last context line
\* printed, which ends with the source text of line L.
OutputColumn(L, s) == Len(Last(printed.context)) - Len(lines[L + 1]) + s + 1

\* C21: for an error at line L and columns [s, e) the reporter prints the
\* location L+1 : s+1, the min(3, L+1) source lines that end with line L, and
\* e - s carets of which the first is in the output column of source column s of
\* the error line printed above it, for every line number L.
C21_DiagnosticIsAligned ==
    asm_pc = "exited" =>
        LET L == lex_error.line_number
            s == lex_error.col_start
            e == lex_error.col_end
            shown == Len(printed.context)
        IN /\ printed.location = <<L + 1, s + 1>>
           /\ shown = Min({3, L + 1})
           /\ \A i \in 1..shown :
                 LET text == lines[L + 1 - shown + i]
                     out == printed.context[i]
                 IN SubSeq(out, Len(out) - Len(text) + 1, Len(out)) = text
           /\ Cardinality(Carets) = e - s
           /\ Carets = OutputColumn(L, s)..(OutputColumn(L, s) + e - s - 1)

-----------------------------------------------------------------------------
(* The first error ends the run (C22).                                     *)

\* An error has been handed to the reporter.
Reported == lex_error.res = "error" \/ parse_error.res = "error"

\* C22: once the first error is reported nothing more happens: no token is
\* emitted, no character and no token is consumed, no section is stored and no
\* Program is returned; and a Program is returned only by a run without error.
C22_FirstErrorEndsTheRun ==
    /\ [](parse_pc = "done" => ~Reported)
    /\ [](lex_error.res = "error" => parse_pc = "idle")
    /\ [][Reported =>
            /\ tokens' = tokens
            /\ chars' = chars /\ line_number' = line_number
            /\ queue' = queue
            /\ ast' = ast /\ labels' = labels
            /\ lex_error' = lex_error /\ parse_error' = parse_error
            /\ parse_pc' /= "done"]_vars

\* The lexer has reported an error on a line that is not the last, after it
\* emitted a token: the rest of the source is left unread and the parser is not
\* called.
C22_Witness ==
    /\ lex_pc = "error"
    /\ lex_error.res = "error"
    /\ tokens /= <<>>
    /\ line_number + 1 < Len(lines)
    /\ parse_pc = "idle"

-----------------------------------------------------------------------------
(* The token queue of the parser (C23).                                    *)

\* q is what is left of s after some of its first tokens were taken.
IsSuffix(q, s) ==
    /\ Len(q) <= Len(s)
    /\ q = SubSeq(s, Len(s) - Len(q) + 1, Len(s))

\* C23: during build_program the token queue is a suffix of the token sequence
\* it was given and every step leaves a suffix of the queue it found, so the
\* parser only reads forward; and a section parser that returns on a data or
\* text directive leaves the queue as it was when it popped that directive, the
\* directive in front: the token pushed back is the token just popped.
C23_QueueIsReadForward ==
    /\ [](IsSuffix(queue, source_tokens))
    /\ [][IsSuffix(queue', queue)]_vars
    /\ [][(parse_pc \in {"data", "text"} /\ parse_pc' = "top" /\ queue /= <<>>) =>
            /\ queue' = queue
            /\ IsSectionDirective(Head(queue'))]_vars

\* The data section parser has returned on the text directive, which is the
\* front token of the queue, after it consumed the tokens of a label.
C23_Witness ==
    /\ parse_pc = "top"
    /\ ast.data.some
    /\ ast.data.labels /= <<>>
    /\ queue /= <<>>
    /\ Head(queue).token_type = "Directive"
    /\ Head(queue).payload = Name_text
    /\ IsSuffix(queue, source_tokens)

-----------------------------------------------------------------------------
(* The line-groups of a subroutine label (C24).                            *)

\* The source lines of a run of tokens, and the k-th of them in source order.
RunLines(run) == {run[i].line_number : i \in DOMAIN run}

NthLine(run, k) ==
    CHOOSE ln \in RunLines(run) :
        Cardinality({m \in RunLines(run) : m < ln}) = k - 1

\* The tokens of the run that are on source line ln.
IsOnLine(tok, ln) == tok.line_number = ln

LineGroup(run, ln) == SelectSeq(run, LAMBDA tok : IsOnLine(tok, ln))

\* What the line-group gives: the error for a first token that is no
\* Instruction, and otherwise the instruction of the line or its error.
GroupResult(group) ==
    IF Head(group).token_type /= "Instruction"
    THEN ErrAt("Lines inside a subroutine must start with an instruction", Head(group))
    ELSE InstructionOfLine(InstructionArguments_parse(Tail(group)), Head(group), group)

\* The groups, in source order, that give no instruction.
BadGroups(run) ==
    {k \in 1..Cardinality(RunLines(run)) :
        GroupResult(LineGroup(run, NthLine(run, k))).res /= "ok"}

\* C24: the run of a subroutine label is consumed one source line at a time, a
\* line-group being all the tokens of the run on the line of its first token:
\* an accepted label holds one instruction per source line of its run, the k-th
\* from the tokens of the k-th line, and the run is rejected at the first line
\* that gives none, with the error of a line that starts with no Instruction
\* at that line's first token.
C24_OneInstructionPerSourceLine ==
    parse_pc \in {"done", "error", "panic"} =>
        LET run == LabelRun
            n == Cardinality(RunLines(run))
        IN IF BadGroups(run) = {}
           THEN /\ parse_pc = "done"
                /\ Len(ast.text.labels) = 1
                /\ ast.text.labels[1].body =
                       [k \in 1..n |-> GroupResult(LineGroup(run, NthLine(run, k))).value]
           ELSE /\ parse_pc /= "done"
                /\ parse_error =
                       GroupResult(LineGroup(run, NthLine(run, Min(BadGroups(run)))))

\* A label of three lines was accepted: a nop, a mov with its two operands on
\* the line of the label's second line, and a nop.
C24_Witness ==
    /\ parse_pc = "done"
    /\ Cardinality(RunLines(LabelRun)) = 3
    /\ Len(LabelRun) = 6
    /\ Len(ast.text.labels[1].body) = 3
    /\ ast.text.labels[1].body[1] = Instr("nop", <<>>)
    /\ ast.text.labels[1].body[3] = Instr("nop", <<>>)

-----------------------------------------------------------------------------
(* Register names (C26).                                                   *)

\* The capital of each letter of the register names.
CapitalOf ==
    ("a" :> "A") @@ ("b" :> "B") @@ ("c" :> "C") @@ ("d" :> "D") @@ ("e" :> "E")
    @@ ("x" :> "X")

\* name is the lower-case name 'lower' in some mix of cases.
SameIgnoringCase(name, lower) ==
    /\ Len(name) = Len(lower)
    /\ \A i \in DOMAIN lower : name[i] \in {lower[i], CapitalOf[lower[i]]}

\* The registers that a name names.
RegistersOfName(name) ==
    {row[2] : row \in {r \in RegisterTable : SameIgnoringCase(name, r[1])}}

\* C26: a Register token whose name is one of ax, bx, cx, dx, ex, eax, ebx,
\* ecx, edx, eex in any mix of cases is resolved to that register and parsed to
\* the Register argument; for every other Register token from_name gives no
\* register and the argument parser reports that the register name is invalid,
\* at the token, and gives no argument.
C26_RegisterNamesIgnoreCase ==
    arg_pc = "done" =>
        LET tok == line_arguments[1]
            named == RegistersOfName(tok.payload)
        IN IF named /= {}
           THEN /\ named = {Register_from_name(tok.payload)}
                /\ line_result = Ok(ArgRegister(Register_from_name(tok.payload)))
           ELSE /\ Register_from_name(tok.payload) = "-"
                /\ line_result = ErrAt("Register name is invalid!", tok)

\* The token %eAx was parsed to the register EAX.
C26_Witness ==
    /\ arg_pc = "done"
    /\ line_arguments[1].payload = <<"e", "A", "x">>
    /\ line_result = Ok(ArgRegister("EAX"))

-----------------------------------------------------------------------------
(* Tokens that start with '%' (C27).                                       *)

\* The text of s up to its first delimiter.
UpToDelimiter(s) ==
    LET stops == {i \in DOMAIN s : s[i] \in ScanDelimiters}
    IN IF stops = {} THEN s ELSE SubSeq(s, 1, Min(stops) - 1)

OnlyOver(s, class) == \A i \in DOMAIN s : s[i] \in class

NameChars ==
    {"a", "b", "c", "d", "e", "f", "g", "h", "i", "j", "k", "l", "m", "n", "o", "p",
     "q", "r", "s", "t", "u", "v", "w", "x", "y", "z",
     "A", "B", "C", "D", "E", "F", "G", "H", "I", "J", "K", "L", "M", "N", "O", "P",
     "Q", "R", "S", "T", "U", "V", "W", "X", "Y", "Z",
     "0", "1", "2", "3", "4", "5", "6", "7", "8", "9", "_"}

DigitChars == {"0", "1", "2", "3", "4", "5", "6", "7", "8", "9"}

\* What a line that starts with '%' gives first: the kind of the token, or
\* "error".
PercentOutcome(text) ==
    IF text = <<>> THEN "error"
    ELSE IF OnlyOver(text, DigitChars)
    THEN (IF OnlyOver(text, {"0", "1"}) THEN "Binary" ELSE "error")
    ELSE IF OnlyOver(text, NameChars) THEN "Register" ELSE "error"

\* C27: for a token that starts with '%', with 'text' what follows up to the
\* next delimiter: an empty text is a lexical error; a text of decimal digits
\* only is a Binary token when every digit is 0 or 1 and an error otherwise; a
\* text with a character that is no digit is a Register token when it is over
\* [a-zA-Z0-9_] and an error otherwise.  So no Register token holds digits only.
C27_PercentIsBinaryOrRegister ==
    /\ \A i \in DOMAIN tokens :
          /\ tokens[i].token_type = "Register" =>
                PercentOutcome(tokens[i].payload) = "Register"
          /\ tokens[i].token_type = "Binary" =>
                PercentOutcome(tokens[i].payload) = "Binary"
          /\ Head(tokens[i].value) = "%" =>
                tokens[i].token_type = PercentOutcome(Tail(tokens[i].value))
    /\ (/\ Len(lines) = 1
        /\ Head(lines[1]) = "%"
        /\ tokens /= <<>> \/ lex_pc = "error") =>
            LET text == UpToDelimiter(Tail(lines[1]))
                kind == PercentOutcome(text)
            IN IF kind = "error"
               THEN /\ tokens = <<>>
                    /\ lex_pc = "error"
                    /\ lex_error.res = "error"
                    /\ lex_error.line_number = 0
                    /\ lex_error.col_start = 0
                    /\ lex_error.col_end = 1 + Len(text)
               ELSE tokens[1] = Token(0, 0, 1 + Len(text), <<"%">> \o text, kind, text)

\* The line '%a,%1' gave a Register token, a comma and a Binary token.
C27_Witness ==
    /\ lex_pc = "done"
    /\ lines = <<<<"%", "a", ",", "%", "1">>>>
    /\ Len(tokens) = 3
    /\ tokens[3].token_type = "Binary"
    /\ tokens[1].token_type = "Register"
    /\ tokens[1].payload = <<"a">>

-----------------------------------------------------------------------------
(* C28: the payload of every emitted token.                                *)

NonEmptyOver(s, A) == s /= <<>> /\ \A i \in DOMAIN s : s[i] \in A

NameKinds == {"Label", "Directive", "Instruction", "Identifier", "Register"}

ValidPayload(t) ==
    CASE t.token_type \in NameKinds ->
            NonEmptyOver(t.payload, AsciiLetters \cup AsciiDigits \cup {"_"})
      [] t.token_type = "Binary" -> NonEmptyOver(t.payload, {"0", "1"})
      [] t.token_type = "Hex" ->
            NonEmptyOver(t.payload,
                         AsciiDigits \cup Range(HexLowerChars) \cup Range(HexUpperChars))
      [] t.token_type = "Decimal" -> NonEmptyOver(t.payload, AsciiDigits)
      [] OTHER -> TRUE

\* C28: every Label, Directive, Instruction, Identifier and Register payload is
\* a non-empty string over [a-zA-Z0-9_], every Binary payload a non-empty string
\* over [01], every Hex payload a non-empty string over [0-9a-fA-F] and every
\* Decimal payload a non-empty string over [0-9], its first character included.
C28_EveryPayloadIsValid == \A i \in DOMAIN tokens : ValidPayload(tokens[i])

-----------------------------------------------------------------------------
(* C29: termination of the lexer and the parser.                           *)

\* The run is over: an error was reported, a panic unwound, or build_program
\* returned the Program.
Halted == lex_pc = "error" \/ parse_pc \in {"done", "error", "panic"}

\* Tokens build_program and the section parsers have taken off the queue.
Consumed == Len(source_tokens) - Len(queue)

SectionsParsed ==
    (IF ast.data.some THEN 1 ELSE 0) + (IF ast.text.some THEN 1 ELSE 0)

\* The characters of the lines after the first n, plus w for every such line.
RECURSIVE Weight(_, _, _)
Weight(ls, n, w) ==
    IF n >= Len(ls) THEN 0 ELSE Len(ls[n + 1]) + w + Weight(ls, n + 1, w)

\* Characters the lexer has still to read.
CharsLeft ==
    IF lex_pc = "token" THEN Len(chars) + Weight(lines, line_number + 1, 0)
    ELSE IF lex_pc = "line" THEN Weight(lines, line_number, 0)
    ELSE 0

\* A bound on the steps the run has still to take: for the lexer, one per
\* character and two per line left; for the parser, two per token left.  Before
\* build_program is called the tokens it will be given are at most the tokens
\* emitted so far and one per character left.
StepsLeft ==
    IF Halted THEN 0
    ELSE IF parse_pc = "top" THEN 2 * Len(queue) + 1
    ELSE IF parse_pc \in {"data", "text"} THEN 2 * Len(queue) + 2
    ELSE 2 * (Len(tokens) + CharsLeft) + 2
         + (IF lex_pc = "token" THEN 2 + Len(chars) + Weight(lines, line_number + 1, 2)
            ELSE IF lex_pc = "line" THEN 1 + Weight(lines, line_number, 2)
            ELSE 0)

\* A step of the lexer or the parser can be taken: the guards of NextLine,
\* LexReturn and LexToken, of BuildProgramCall and of the parser's steps.
CanStep ==
    \/ lex_pc = "line" /\ line_number <= Len(lines)
    \/ lex_pc = "token" /\ chars /= <<>>
    \/ lex_pc = "done" /\ parse_pc \in {"idle", "top", "data", "text"}

\* The loops inside one iteration of a label loop, on the label at the front of
\* the queue: the label-run loop moves the tokens of the run one by one, and
\* every line-group read off what is left of the run takes at least one token;
\* the comma-split loop of a line moves or drops every token of the line.
InnerLoopsShrink ==
    (parse_pc \in {"data", "text"} /\ queue /= <<>> /\ Head(queue).token_type = "Label") =>
        LET run == read_tokens_to_label_or_eos(Tail(queue))
        IN /\ run.taken \o run.left = Tail(queue)
           /\ \A k \in 0..(Len(run.taken) - 1) :
                 LET rest == Drop(run.taken, k)
                     group == read_tokens_to_eol(rest)
                     args == split_tokens_by_commas(Tail(group.taken))
                 IN /\ group.taken /= <<>>
                    /\ group.taken \o group.left = rest
                    /\ args.res = "ok" =>
                          \A i \in DOMAIN args.value :
                              Len(args.value[i]) < Len(group.taken)

\* C29: lexing and parsing terminate on every input.  Every iteration of the
\* token loop of a line removes at least one character; every iteration of the
\* loop of build_program removes its directive, every iteration of a label loop
\* that goes round again removes at least one token, and a section returns with
\* the queue as it found it (the directive popped is pushed back), so the tokens
\* consumed grow with every section and label parsed; the inner loops shrink
\* their input.  A run that is not over can take a step, every step lowers the
\* bound StepsLeft, and build_program returns the Program only with the queue
\* empty.
C29_LexingAndParsingTerminate ==
    /\ [][lex_pc = "token" => Len(chars') < Len(chars)]_vars
    /\ [][(parse_pc = "top" /\ parse_pc' /= "done") => Len(queue') = Len(queue) - 1]_vars
    /\ [][(parse_pc \in {"data", "text"} /\ parse_pc' = parse_pc) =>
              Len(queue') < Len(queue)]_vars
    /\ [][(parse_pc \in {"data", "text"} /\ parse_pc' = "top") => queue' = queue]_vars
    /\ [][StepsLeft' < StepsLeft]_vars
    /\ [](/\ StepsLeft >= 0
          /\ Halted \/ CanStep
          /\ parse_pc \in {"top", "done"} => Consumed >= SectionsParsed
          /\ parse_pc \in {"data", "text"} => Consumed >= SectionsParsed + 1 + Len(labels)
          /\ InnerLoopsShrink
          /\ parse_pc = "done" => queue = <<>>)

\* build_program returned the Program of a text section whose label holds one
\* instruction with two operands: every loop has run and all seven tokens of
\* the three lines were consumed.
C29_Witness ==
    /\ parse_pc = "done"
    /\ lex_pc = "done"
    /\ Len(lines) = 3
    /\ Len(source_tokens) = 7
    /\ source_tokens[5].token_type = "Comma"
    /\ queue = <<>>
    /\ ast.text.some
    /\ Len(ast.text.labels) = 1
    /\ Len(ast.text.labels[1].body) = 1

=============================================================================
